---- MODULE Spec2Model ----
(***************************************************************************)
(* Block cache of ngnfs (src/shared/block.c): dirty sets, the dirtying /   *)
(* writeback handshake, the writeback and submit works on the single       *)
(* workqueue thread, write completions and the sync fence.                 *)
(*                                                                         *)
(* Atomicity.  One action is one atomic access to shared memory (a bit     *)
(* operation, an atomic counter, a cmpxchg, the exchange that empties an   *)
(* llist) together with the thread-local work that follows it.  Work done  *)
(* on a set's fields under the DIRTYING bit (the merge, clear_set_dirtying)*)
(* is folded into the step that starts it.  Memory is sequentially         *)
(* consistent.  A wait_event is a step that is enabled when its condition  *)
(* holds.                                                                  *)
(*                                                                         *)
(* The process stops (crashed # "no") at a BUG_ON, at a NULL dereference   *)
(* and when a list node that is already linked is linked again.            *)
(***************************************************************************)
EXTENDS Integers, Sequences, FiniteSets, TLC

\* ------------------------------------------------------------------ bounds
NumBlocks == 5          \* block numbers 1..NumBlocks are cached
MaxSets == 4            \* set structs that kmalloc hands out in one run
MaxSeq == 5             \* above every dirty_seq a run assigns
MaxInflight == 4        \* submissions the transport holds at once
IoQueueDepth == 2       \* queue depth of the transport in the runs that fill it

\* The three limits of block.c (1024, 256 and 64 blocks) are scaled down to
\* the number of blocks of the model and keep their order.
DIRTY_LIMIT == 5
WRITEBACK_THRESH == 4
SET_LIMIT == 3

\* ------------------------------------------------- constants of the source
SYNC_WAITERS_ERR == 1
SYNC_WAITERS_INC == 2
BTR_MSG_QUEUE_DEPTH == 32
EIO == 5
ENOMEM == 12
EINVAL == 22

Blocks == 1..NumBlocks
SetIds == 1..MaxSets
NULL == 0
TxnThreads == {1, 2}
SyncThreads == {3}
Threads == TxnThreads \cup SyncThreads

VARIABLES
    blinf,              \* struct ngnfs_block_info: the atomic counters
    blocks,             \* struct ngnfs_block, by bnr
    sets,               \* struct ngnfs_block_set, by allocation number
    submit_llist,       \* blinf->submit_llist, newest first
    submit_list,        \* blinf->submit_list, oldest first
    writeback_llist,    \* blinf->writeback_llist, newest first
    writeback_list,     \* blinf->writeback_list, oldest first
    wq,                 \* work structs queued on the workqueue, oldest first
    work,               \* the workqueue thread: the work it runs and where
    inflight,           \* submissions the transport has not completed
    eio,                \* the transport thread inside ngnfs_block_end_io
    th,                 \* caller threads: transactions and sync callers
    budget,             \* operations left to start in this run
    crashed,            \* "no", or why the process stopped
    hist                \* history: commits, submitted and completed writes

vars == <<blinf, blocks, sets, submit_llist, submit_list, writeback_llist,
          writeback_list, wq, work, inflight, eio, th, budget, crashed, hist>>

\* ----------------------------------------------------------------- helpers
Max(S) == CHOOSE x \in S : \A y \in S : y <= x

Reverse(s) == [i \in 1..Len(s) |-> s[Len(s) + 1 - i]]

Range(s) == {s[i] : i \in 1..Len(s)}

RemoveAt(s, i) == SubSeq(s, 1, i - 1) \o SubSeq(s, i + 1, Len(s))

UNINIT == -1            \* a field kmalloc left uninitialised

\* values an uninitialised dirty_seq can be read as
GarbageSeqs == {0, MaxSeq}

\* ------------------------------------------------------------ initial state
InitBlinf(qd) ==
    [queue_depth |-> qd, nr_dirty |-> 0, nr_writeback |-> 0, nr_submitted |-> 0,
     sync_waiters |-> 0, dirty_seq |-> 0, writeback_seq |-> 0, sync_seq |-> 0]

\* a cached block that a get with NBF_NEW made UPTODATE; the index holds a ref.
\* page is what the block's buffer holds: "none" as alloc_page left it, "zero"
\* after the memset of NBF_NEW, "read" the contents a read brought in;
\* set_head is "ok" while the links of the block's set_head are those of the
\* list of the set it points to, or of no list; ent names the struct
\* ngnfs_block in the hash table by the caller whose alloc_block made it
InitBlock ==
    [set |-> NULL, bits |-> {"UPTODATE"}, refcount |-> 1, error |-> 0, page |-> "zero",
     set_head |-> "ok", ent |-> NULL]

NoSet ==
    [alloc |-> FALSE, refcount |-> 0, submitted_blocks |-> 0, block_list |-> <<>>,
     dirty_seq |-> UNINIT, bits |-> {}, size |-> 0]

\* a block number that is not in the hash table yet
NoBlock ==
    [set |-> NULL, bits |-> {}, refcount |-> 0, error |-> 0, page |-> "none",
     set_head |-> "ok", ent |-> NULL]

\* bnr, nbf, bl: the arguments and the result of the ngnfs_block_get in
\* progress; waited, submitted: what the call did; blks, at: the blocks of the
\* transaction (struct ngnfs_transaction_block) and the one execute is at;
\* ent: the struct ngnfs_block the get holds, dup: it freed one of its own
IdleThread ==
    [pc |-> "idle", list |-> <<>>, pos |-> 0, small |-> NULL, large |-> NULL,
     seq |-> 0, ret |-> 0, held |-> NULL, fence |-> FALSE, incs |-> 0,
     bnr |-> 0, nbf |-> {}, bl |-> NULL, waited |-> FALSE, submitted |-> FALSE,
     blks |-> <<>>, at |-> 0, ent |-> NULL, dup |-> FALSE]

InitHist ==
    [ver |-> [b \in Blocks |-> 0],          \* commits applied to the block
     durable |-> [b \in Blocks |-> 0],      \* newest commit a completed write carried
     promoted |-> <<>>,                     \* sets in the order writeback took them
     members |-> [s \in SetIds |-> {}],     \* blocks submitted for the set
     owed |-> [b \in Blocks |-> 0],         \* commits the sync caller found dirty
     rdby |-> [b \in Blocks |-> 0],         \* the caller that queued the block's read
     rdres |-> [t \in Threads |-> "none"],  \* how the read a get queued ended
     sawfail |-> {},                        \* gets that waited while a read failed
     filled |-> {},                         \* blocks a good read or NBF_NEW filled
     alone |-> {},                          \* gets that found no other holder of the block
     raced |-> {},                          \* gets during which a read of the block failed
     syncerr |-> {},                        \* sync waiters when a completion reported an error
     began |-> {},                          \* transactions whose execute called dirty_begin
     aborted |-> {},                        \* transactions with a failed get or prepare
     dirty0 |-> {},                         \* the blocks DIRTY when the transaction was set up
     before |-> [b \in Blocks |-> 0],       \* reference counts when destroy was called
     commits |-> [t \in Threads |-> 0],     \* commit callbacks execute has invoked
     taken |-> [t \in Threads |-> <<>>]]    \* block references execute acquired

\* What the callers do in one run: the write lists of the transactions of
\* each thread, in order, and the number of ngnfs_block_sync calls.
Plan(l1, l2, n) == [txns |-> <<l1, l2>>, syncs |-> n]

Plans ==
    { \* two threads dirty one block again and again, around two syncs, and
      \* then the block is dirtied together with a clean one
      Plan(<< <<1>>, <<1>>, <<1, 2>> >>, << <<1>> >>, 2),
      \* two dirty sets are merged while a sync waits for the older one
      Plan(<< <<1>>, <<2>>, <<2, 1>> >>, << >>, 1),
      \* a merge that would exceed SET_LIMIT syncs instead
      Plan(<< <<1, 2>>, <<3, 4>>, <<1, 3>> >>, << >>, 0),
      \* the same, with a first set that was never dirty
      Plan(<< <<1, 2>>, <<3, 4, 1>> >>, << >>, 0),
      \* two threads dirty their first set at the same time
      Plan(<< <<1, 2>> >>, << <<3>> >>, 1),
      \* a clean block comes first and its new set is the smaller of the merge
      Plan(<< <<1, 3>>, <<2, 1>> >>, << >>, 1),
      \* clean blocks are attached to a set that is full
      Plan(<< <<1, 2, 3>>, <<1, 4>> >>, << >>, 0) }

InitOver(plans, qd) ==
    /\ blinf = InitBlinf(qd)
    /\ blocks = [b \in Blocks |-> InitBlock]
    /\ sets = [s \in SetIds |-> NoSet]
    /\ submit_llist = <<>>
    /\ submit_list = <<>>
    /\ writeback_llist = <<>>
    /\ writeback_list = <<>>
    /\ wq = <<>>
    /\ work = [pc |-> "idle", set |-> NULL, space |-> 0]
    /\ inflight = <<>>
    /\ eio = [pc |-> "idle", bnr |-> 0, set |-> NULL]
    /\ th = [t \in Threads |-> IdleThread]
    /\ budget \in plans
    /\ crashed = "no"
    /\ hist = InitHist

InitWith(plans) == InitOver(plans, BTR_MSG_QUEUE_DEPTH)

Init == InitWith(Plans)

\* ------------------------------------------------------- refcounts and bits
get_set(ss, s) == [ss EXCEPT ![s].refcount = @ + 1]

\* put_set of a NULL pointer does nothing
put_set(ss, s) == IF s = NULL THEN ss ELSE [ss EXCEPT ![s].refcount = @ - 1]

\* the BUG_ONs of put_set: the last reference goes while the set has blocks
put_set_bug(ss, s) ==
    /\ s # NULL
    /\ ss[s].refcount = 1
    /\ (ss[s].block_list # <<>> \/ ss[s].size # 0)

get_block(bs, b) == [bs EXCEPT ![b].refcount = @ + 1]

put_block(bs, b) == [bs EXCEPT ![b].refcount = @ - 1]

\* ------------------------------------------------------------- the workqueue
\* queue_work: WORK_QUEUED is set exactly while the work is on the queue
queue_work(q, w) == IF w \in Range(q) THEN q ELSE Append(q, w)

should_writeback(bi) ==
    /\ \/ bi.sync_seq > bi.writeback_seq
       \/ (bi.nr_dirty - bi.nr_writeback) >= WRITEBACK_THRESH
    /\ bi.nr_writeback < bi.queue_depth

try_queue_writeback_work(bi, q) ==
    IF should_writeback(bi) THEN queue_work(q, "writeback") ELSE q

try_queue_submit_work(bi, sl, sll, q) ==
    IF (sl # <<>> \/ sll # <<>>) /\ bi.nr_submitted < bi.queue_depth
    THEN queue_work(q, "submit") ELSE q

\* a gathering that splices the llist as it is walked, newest first
del_all_add_tail(list, llist) == list \o llist

\* llist_add pushes on the head of the lock-free list
llist_add(x, ll) == <<x>> \o ll

\* the llist is walked newest first, each node is list_add()ed to the head of
\* a private list, which is then spliced on the tail of the caller's list
del_all_reverse_add_tail(list, llist) == list \o Reverse(llist)

\* --------------------------------------------------------------- dirty sets
\* the number of blocks at the tail of a set's list that are not BL_DIRTY:
\* the walks of clear_set_dirtying and of dirty_begin go backwards and stop
\* at the first dirty block
NonDirtyTail(bs, list) ==
    LET dirty == {i \in 1..Len(list) : "DIRTY" \in bs[list[i]].bits}
    IN  IF dirty = {} THEN Len(list) ELSE Len(list) - Max(dirty)

TailBlocks(list, k) == {list[i] : i \in (Len(list) - k + 1)..Len(list)}

\* clear_set_dirtying without its try_queue_writeback_work: the blocks that
\* were added but not dirtied leave the set, then DIRTYING is cleared
clear_set_dirtying(st, s) ==
    LET list == st.sets[s].block_list
        k == NonDirtyTail(st.blocks, list)
        gone == TailBlocks(list, k)
    IN  [blocks |-> [b \in Blocks |->
                        IF b \in gone THEN [st.blocks[b] EXCEPT !.set = NULL]
                        ELSE st.blocks[b]],
         sets |-> [st.sets EXCEPT ![s].block_list = SubSeq(list, 1, Len(list) - k),
                                  ![s].size = @ - k,
                                  ![s].bits = @ \ {"DIRTYING"}]]

clear_if(st, s) == IF s = NULL THEN st ELSE clear_set_dirtying(st, s)

\* the merge at the end of the loop body of ngnfs_block_dirty_begin: small's
\* blocks point to large, small's list is spliced on the head of large's list
\* and small loses SET_DIRTY and SET_DIRTYING
merge_sets(st, small, large) ==
    LET moved == Range(st.sets[small].block_list)
    IN  [blocks |-> [b \in Blocks |->
                        IF b \in moved THEN [st.blocks[b] EXCEPT !.set = large]
                        ELSE st.blocks[b]],
         sets |-> [st.sets EXCEPT
                     ![large].block_list = st.sets[small].block_list \o @,
                     ![large].size = @ + st.sets[small].size,
                     ![small].block_list = <<>>,
                     ![small].size = 0,
                     ![small].bits = @ \ {"DIRTY", "DIRTYING"}]]

\* the rule that decides that two sets are not merged but written out
exceeds_limit(a, b) == a + b > SET_LIMIT

\* the lowest set struct not handed out yet, NULL when kmalloc has no more
FreeSet == IF \E s \in SetIds : ~sets[s].alloc
           THEN CHOOSE s \in SetIds : ~sets[s].alloc /\ \A u \in SetIds : u < s => sets[u].alloc
           ELSE NULL

St == [blocks |-> blocks, sets |-> sets]

Crash(why) ==
    /\ crashed' = why
    /\ UNCHANGED <<blinf, blocks, sets, submit_llist, submit_list, writeback_llist,
                   writeback_list, wq, work, inflight, eio, th, budget, hist>>

\* the next block of the caller's list, or the code after the loop
Advance(r) ==
    IF r.pos < Len(r.list)
    THEN [r EXCEPT !.pos = @ + 1, !.pc = "db_get"]
    ELSE [r EXCEPT !.pos = @ + 1, !.pc = "db_mark"]

\* ---------------------------------------------------------- ngnfs_txn_execute
\* The transaction gets its blocks (cached and UPTODATE: a reference each) and
\* calls ngnfs_block_dirty_begin with its write list.
TxnBegin(t) ==
    /\ crashed = "no"
    /\ th[t].pc = "idle"
    /\ budget.txns[t] # <<>>
    /\ budget' = [budget EXCEPT !.txns[t] = Tail(@)]
    /\ LET l == Head(budget.txns[t])
       IN  /\ blocks' = [b \in Blocks |->
                           IF b \in Range(l) THEN get_block(blocks, b)[b] ELSE blocks[b]]
           /\ th' = [th EXCEPT ![t] =
                       [IdleThread EXCEPT !.pc = "db_admit", !.list = l, !.pos = 1]]
    /\ UNCHANGED <<blinf, sets, submit_llist, submit_list, writeback_llist,
                   writeback_list, wq, work, inflight, eio, crashed, hist>>

\* wait_event(nr_dirty < DIRTY_LIMIT), then the first pass of the loop
DbAdmit(t) ==
    /\ crashed = "no"
    /\ th[t].pc = "db_admit"
    /\ blinf.nr_dirty < DIRTY_LIMIT
    /\ th' = [th EXCEPT ![t].pc = "db_get"]
    /\ UNCHANGED <<blinf, blocks, sets, submit_llist, submit_list, writeback_llist,
                   writeback_list, wq, work, inflight, eio, budget, crashed, hist>>

\* restart: put_set(small), put_set(large), and the loop starts over
Restart(t) ==
    LET r == th[t]
        ss1 == put_set(sets, r.small)
    IN  IF put_set_bug(sets, r.small) \/ put_set_bug(ss1, r.large)
        THEN Crash("BUG_ON put_set")
        ELSE /\ sets' = put_set(ss1, r.large)
             /\ th' = [th EXCEPT ![t].pc = "db_get", ![t].pos = 1,
                                 ![t].small = NULL, ![t].large = NULL]
             /\ UNCHANGED <<blinf, blocks, submit_llist, submit_list, writeback_llist,
                            writeback_list, wq, work, inflight, eio, budget, crashed, hist>>

\* put_set(small); small = get_other_set(bl, large)
DbGet(t) ==
    /\ crashed = "no"
    /\ th[t].pc = "db_get"
    /\ LET r == th[t]
           b == r.list[r.pos]
           cur == blocks[b].set
           ss1 == put_set(sets, r.small)
       IN  IF put_set_bug(sets, r.small) THEN Crash("BUG_ON put_set")
           ELSE
           /\ UNCHANGED <<blinf, submit_llist, submit_list, writeback_llist,
                          writeback_list, wq, work, inflight, eio, budget, crashed, hist>>
           /\ IF cur # NULL /\ cur = r.large THEN
                  \* the block is already in our large set
                  /\ sets' = ss1
                  /\ blocks' = blocks
                  /\ th' = [th EXCEPT ![t] = Advance([r EXCEPT !.small = NULL])]
              ELSE IF cur # NULL THEN
                  \* another set, returned with a reference
                  /\ sets' = get_set(ss1, cur)
                  /\ blocks' = blocks
                  /\ th' = [th EXCEPT ![t].small = cur, ![t].pc = "db_dirtying"]
              ELSE
                  \* the block has no set: on to the cmpxchg of its set pointer
                  /\ sets' = ss1
                  /\ blocks' = blocks
                  /\ th' = [th EXCEPT ![t].small = NULL, ![t].pc = "db_cmpxchg"]

\* a set struct as get_other_set initialises it around its first block
new_set(b) ==
    [alloc |-> TRUE, refcount |-> 2, submitted_blocks |-> 0, block_list |-> <<b>>,
     dirty_seq |-> UNINIT, bits |-> {}, size |-> 1]

\* what kfree(set) after a failed cmpxchg leaves of the block's set_head, which
\* list_add_tail linked on the freed set's list: "before" the winner linked the
\* block, whose links are then the winner's, or "after", and the block's links
\* point into freed memory; a walk of such a list may also end the process
Freed == {"before", "after", "crash"}

\* get_other_set for a block it found without a set: with a set of its own the
\* caller tries cmpxchg(&bl->set, NULL, existing) and links the block on
\* success; without one it allocates a set, links the block on it and tries
\* cmpxchg(&bl->set, NULL, set), freeing the set on failure; a failed cmpxchg
\* reads bl->set again
DbCmpxchg(t) ==
    /\ crashed = "no"
    /\ th[t].pc = "db_cmpxchg"
    /\ LET r == th[t]
           b == r.list[r.pos]
           new == FreeSet
       IN  IF r.large # NULL THEN
               /\ IF blocks[b].set = NULL THEN
                      /\ sets' = [sets EXCEPT ![r.large].block_list = Append(@, b),
                                              ![r.large].size = @ + 1]
                      /\ blocks' = [blocks EXCEPT ![b].set = r.large]
                      /\ th' = [th EXCEPT ![t] = Advance(r)]
                  ELSE
                      /\ th' = [th EXCEPT ![t].pc = "db_get"]
                      /\ UNCHANGED <<sets, blocks>>
               /\ crashed' = crashed
           ELSE
               \E fail \in (IF new = NULL THEN {TRUE} ELSE BOOLEAN) :
                 IF fail THEN
                     /\ th' = [th EXCEPT ![t].ret = -ENOMEM, ![t].pc = "destroy"]
                     /\ UNCHANGED <<sets, blocks, crashed>>
                 ELSE IF blocks[b].set = NULL THEN
                     /\ sets' = [sets EXCEPT ![new] = new_set(b)]
                     /\ blocks' = [blocks EXCEPT ![b].set = new]
                     /\ th' = [th EXCEPT ![t].small = new, ![t].pc = "db_dirtying"]
                     /\ crashed' = crashed
                 ELSE
                     \E f \in Freed :
                         /\ blocks' = IF f = "before" THEN blocks
                                      ELSE [blocks EXCEPT ![b].set_head = "dangling"]
                         /\ crashed' = IF f = "crash" THEN "walk of a freed set's list"
                                       ELSE crashed
                         /\ th' = [th EXCEPT ![t].pc = "db_get"]
                         /\ sets' = sets
    /\ UNCHANGED <<blinf, submit_llist, submit_list, writeback_llist,
                   writeback_list, wq, work, inflight, eio, budget, hist>>

\* test_and_set_bit(SET_DIRTYING, &small->bits)
DbDirtying(t) ==
    /\ crashed = "no"
    /\ th[t].pc = "db_dirtying"
    /\ LET r == th[t]
           st1 == clear_if(St, r.large)
       IN  IF "DIRTYING" \in sets[r.small].bits THEN
               /\ blocks' = st1.blocks
               /\ sets' = st1.sets
               /\ wq' = IF r.large # NULL THEN try_queue_writeback_work(blinf, wq) ELSE wq
               /\ th' = [th EXCEPT ![t].pc = "db_wait_dirtying"]
           ELSE
               /\ sets' = [sets EXCEPT ![r.small].bits = @ \cup {"DIRTYING"}]
               /\ th' = [th EXCEPT ![t].pc = "db_wbtest"]
               /\ UNCHANGED <<blocks, wq>>
    /\ UNCHANGED <<blinf, submit_llist, submit_list, writeback_llist, writeback_list,
                   work, inflight, eio, budget, crashed, hist>>

\* wait_event(!test_bit(SET_DIRTYING, &small->bits)); goto restart
DbWaitDirtying(t) ==
    /\ crashed = "no"
    /\ th[t].pc = "db_wait_dirtying"
    /\ "DIRTYING" \notin sets[th[t].small].bits
    /\ Restart(t)

\* wait_event(!test_bit(SET_WRITEBACK, &small->bits)); goto restart
DbWaitWriteback(t) ==
    /\ crashed = "no"
    /\ th[t].pc = "db_wait_writeback"
    /\ "WRITEBACK" \notin sets[th[t].small].bits
    /\ Restart(t)

\* test_bit(SET_WRITEBACK, &small->bits) and, with both sets DIRTYING, the rest
\* of the loop body: the first set becomes large, or the two sets are merged,
\* or they are released and the larger is synced
DbWbtest(t) ==
    /\ crashed = "no"
    /\ th[t].pc = "db_wbtest"
    /\ LET r == th[t]
           swap == r.large # NULL /\ sets[r.small].size > sets[r.large].size
           sm == IF swap THEN r.large ELSE r.small
           lg == IF swap THEN r.small ELSE r.large
           back == clear_if(clear_set_dirtying(St, r.small), r.large)
           lim == clear_set_dirtying(clear_set_dirtying(St, sm), lg)
           mrg == merge_sets(St, sm, lg)
       IN  IF "WRITEBACK" \in sets[r.small].bits THEN
               /\ blocks' = back.blocks
               /\ sets' = back.sets
               /\ wq' = try_queue_writeback_work(blinf, wq)
               /\ th' = [th EXCEPT ![t].pc = "db_wait_writeback"]
           ELSE IF r.large = NULL THEN
               /\ th' = [th EXCEPT ![t] = Advance([r EXCEPT !.large = r.small, !.small = NULL])]
               /\ UNCHANGED <<blocks, sets, wq>>
           ELSE IF exceeds_limit(sets[lg].size, sets[sm].size) THEN
               /\ \E v \in (IF sets[lg].dirty_seq = UNINIT THEN GarbageSeqs
                            ELSE {sets[lg].dirty_seq}) :
                    th' = [th EXCEPT ![t].small = sm, ![t].large = lg, ![t].seq = v,
                                     ![t].pc = "sync_inc"]
               /\ blocks' = lim.blocks
               /\ sets' = lim.sets
               /\ wq' = try_queue_writeback_work(blinf, wq)
           ELSE
               /\ blocks' = mrg.blocks
               /\ sets' = mrg.sets
               /\ th' = [th EXCEPT ![t] = Advance([r EXCEPT !.small = sm, !.large = lg])]
               /\ wq' = wq
    /\ UNCHANGED <<blinf, submit_llist, submit_list, writeback_llist, writeback_list,
                   work, inflight, eio, budget, crashed, hist>>

\* after the loop: the blocks at the tail of large's list that are not BL_DIRTY
\* are made dirty and counted, then test_and_set_bit(SET_DIRTY) and, for a set
\* that was not dirty, the reference and the dirty_seq of the writeback list
DbMark(t) ==
    /\ crashed = "no"
    /\ th[t].pc = "db_mark"
    /\ LET r == th[t]
           lg == r.large
           list == sets[lg].block_list
           k == NonDirtyTail(blocks, list)
           fresh == TailBlocks(list, k)
           first == "DIRTY" \notin sets[lg].bits
       IN  /\ blocks' = [b \in Blocks |->
                           IF b \in fresh THEN [blocks[b] EXCEPT !.bits = @ \cup {"DIRTY"}]
                           ELSE blocks[b]]
           /\ IF first THEN
                  /\ blinf' = [blinf EXCEPT !.nr_dirty = @ + k, !.dirty_seq = @ + 1]
                  /\ sets' = [sets EXCEPT ![lg].bits = @ \cup {"DIRTY"},
                                          ![lg].refcount = @ + 1,
                                          ![lg].dirty_seq = blinf.dirty_seq + 1]
                  /\ th' = [th EXCEPT ![t].pc = "db_llist_add", ![t].incs = k]
                  /\ crashed' = crashed
              ELSE IF put_set_bug(sets, r.small) THEN
                  /\ crashed' = "BUG_ON put_set"
                  /\ UNCHANGED <<blinf, sets, th>>
              ELSE
                  /\ blinf' = [blinf EXCEPT !.nr_dirty = @ + k]
                  /\ sets' = put_set(sets, r.small)
                  /\ th' = [th EXCEPT ![t].pc = "commit", ![t].held = lg, ![t].ret = 0,
                                      ![t].small = NULL, ![t].large = NULL, ![t].incs = k]
                  /\ crashed' = crashed
    /\ UNCHANGED <<submit_llist, submit_list, writeback_llist, writeback_list, wq,
                   work, inflight, eio, budget, hist>>

\* llist_add(&large->writeback_llnode), try_queue_writeback_work and the return
DbLlistAdd(t) ==
    /\ crashed = "no"
    /\ th[t].pc = "db_llist_add"
    /\ LET r == th[t]
       IN  IF r.large \in Range(writeback_llist) THEN Crash("llist node added twice")
           ELSE IF put_set_bug(sets, r.small) THEN Crash("BUG_ON put_set")
           ELSE
               /\ writeback_llist' = llist_add(r.large, writeback_llist)
               /\ wq' = try_queue_writeback_work(blinf, wq)
               /\ sets' = put_set(sets, r.small)
               /\ th' = [th EXCEPT ![t].pc = "commit", ![t].held = r.large, ![t].ret = 0,
                                   ![t].small = NULL, ![t].large = NULL]
               /\ UNCHANGED <<blinf, blocks, submit_llist, submit_list, writeback_list,
                              work, inflight, eio, budget, crashed, hist>>

\* the commit callbacks of the write list modify the blocks
TxnCommit(t) ==
    /\ crashed = "no"
    /\ th[t].pc = "commit"
    /\ hist' = [hist EXCEPT !.ver = [b \in Blocks |->
                                       IF b \in Range(th[t].list) THEN @[b] + 1 ELSE @[b]]]
    /\ th' = [th EXCEPT ![t].pc = "dirty_end"]
    /\ UNCHANGED <<blinf, blocks, sets, submit_llist, submit_list, writeback_llist,
                   writeback_list, wq, work, inflight, eio, budget, crashed>>

\* ngnfs_block_dirty_end: the set is read from the first block of the list
DirtyEnd(t) ==
    /\ crashed = "no"
    /\ th[t].pc = "dirty_end"
    /\ LET s == blocks[th[t].list[1]].set
       IN  IF s = NULL THEN Crash("NULL set in dirty_end")
           ELSE IF put_set_bug(sets, s) THEN Crash("BUG_ON put_set")
           ELSE
               /\ sets' = put_set([sets EXCEPT ![s].bits = @ \ {"DIRTYING"}], s)
               /\ wq' = try_queue_writeback_work(blinf, wq)
               /\ th' = [th EXCEPT ![t].pc = "destroy", ![t].held = NULL]
               /\ UNCHANGED <<blinf, blocks, submit_llist, submit_list, writeback_llist,
                              writeback_list, work, inflight, eio, budget, crashed, hist>>

\* ngnfs_txn_destroy puts the blocks of the transaction
TxnDestroy(t) ==
    /\ crashed = "no"
    /\ th[t].pc = "destroy"
    /\ blocks' = [b \in Blocks |->
                    IF b \in Range(th[t].list) THEN put_block(blocks, b)[b] ELSE blocks[b]]
    /\ th' = [th EXCEPT ![t] = IdleThread]
    /\ UNCHANGED <<blinf, sets, submit_llist, submit_list, writeback_llist,
                   writeback_list, wq, work, inflight, eio, budget, crashed, hist>>

\* ------------------------------------------------------------ the sync fence
sync_waiters_has_error(bi) == bi.sync_waiters % 2 = SYNC_WAITERS_ERR

\* the two halves of the wait condition of sync_up_to_seq, in the order in
\* which the condition reads them
sync_seq_reached(bi, seq) == bi.writeback_seq >= seq

\* a wait condition that forgets the blocks in flight
sync_ignores_in_flight(bi) == TRUE

sync_none_in_flight(bi) == bi.nr_writeback = 0

\* sync_waiters_set_error: the latch is set only while a waiter is counted
sync_waiters_set_error(bi) ==
    IF bi.sync_waiters >= SYNC_WAITERS_INC
    THEN [bi EXCEPT !.sync_waiters = IF @ % 2 = 1 THEN @ ELSE @ + SYNC_WAITERS_ERR]
    ELSE bi

\* a decrement that leaves the latch as it is
sync_waiters_dec_keep(old) == old - SYNC_WAITERS_INC

\* sync_waiters_dec_error: the value left in sync_waiters
sync_waiters_dec(old) ==
    IF old - SYNC_WAITERS_INC = SYNC_WAITERS_ERR THEN 0 ELSE old - SYNC_WAITERS_INC

\* commits of b that no completed write carries, when no transaction is
\* between dirty_begin and dirty_end on b
Owed(b) ==
    IF /\ "DIRTY" \in blocks[b].bits
       /\ hist.ver[b] > hist.durable[b]
       /\ \A u \in TxnThreads : th[u].pc \in {"commit", "dirty_end"} => b \notin Range(th[u].list)
    THEN hist.ver[b] ELSE 0

\* ngnfs_block_sync reads dirty_seq and calls sync_up_to_seq
SyncBegin(t) ==
    /\ crashed = "no"
    /\ t \in SyncThreads
    /\ th[t].pc = "idle"
    /\ budget.syncs > 0
    /\ budget' = [budget EXCEPT !.syncs = @ - 1]
    /\ th' = [th EXCEPT ![t] = [IdleThread EXCEPT !.pc = "sync_inc", !.seq = blinf.dirty_seq]]
    /\ hist' = [hist EXCEPT !.owed = [b \in Blocks |-> Owed(b)], !.syncerr = @ \ {t}]
    /\ UNCHANGED <<blinf, blocks, sets, submit_llist, submit_list, writeback_llist,
                   writeback_list, wq, work, inflight, eio, crashed>>

\* sync_up_to_seq: sync_waiters_inc, the cmpxchg loop that raises sync_seq and
\* try_queue_writeback_work when it raised it
SyncInc(t) ==
    /\ crashed = "no"
    /\ th[t].pc = "sync_inc"
    /\ LET raised == th[t].seq > blinf.sync_seq
           bi == [blinf EXCEPT !.sync_waiters = @ + SYNC_WAITERS_INC,
                               !.sync_seq = IF raised THEN th[t].seq ELSE @]
       IN  /\ blinf' = bi
           /\ wq' = IF raised THEN try_queue_writeback_work(bi, wq) ELSE wq
    /\ th' = [th EXCEPT ![t].pc = "sync_wait"]
    /\ UNCHANGED <<blocks, sets, submit_llist, submit_list, writeback_llist,
                   writeback_list, work, inflight, eio, budget, crashed, hist>>

\* the wait condition: the error latch, then writeback_seq
SyncWait(t) ==
    /\ crashed = "no"
    /\ th[t].pc = "sync_wait"
    /\ sync_waiters_has_error(blinf) \/ sync_seq_reached(blinf, th[t].seq)
    /\ th' = [th EXCEPT ![t].pc = IF sync_waiters_has_error(blinf) THEN "sync_dec"
                                  ELSE "sync_wait2"]
    /\ UNCHANGED <<blinf, blocks, sets, submit_llist, submit_list, writeback_llist,
                   writeback_list, wq, work, inflight, eio, budget, crashed, hist>>

\* the wait condition: nr_writeback, read after writeback_seq.  fence records
\* whether the whole condition holds at the moment of this read.
SyncWait2(t) ==
    /\ crashed = "no"
    /\ th[t].pc = "sync_wait2"
    /\ th' = [th EXCEPT ![t].pc = IF sync_none_in_flight(blinf) THEN "sync_dec"
                                  ELSE "sync_wait",
                        ![t].fence = /\ blinf.writeback_seq >= th[t].seq
                                     /\ blinf.nr_writeback = 0]
    /\ UNCHANGED <<blinf, blocks, sets, submit_llist, submit_list, writeback_llist,
                   writeback_list, wq, work, inflight, eio, budget, crashed, hist>>

\* sync_waiters_dec_error and the return of sync_up_to_seq: to the caller of
\* ngnfs_block_sync, or into dirty_begin, which restarts or fails
SyncDec(t) ==
    /\ crashed = "no"
    /\ th[t].pc = "sync_dec"
    /\ LET r == th[t]
           ret == IF sync_waiters_has_error(blinf) THEN -EIO ELSE 0
           ss1 == put_set(sets, r.small)
       IN  /\ blinf' = [blinf EXCEPT !.sync_waiters = sync_waiters_dec(@)]
           /\ IF t \in SyncThreads THEN
                  /\ th' = [th EXCEPT ![t].pc = "sync_ret", ![t].ret = ret]
                  /\ UNCHANGED <<sets, crashed>>
              ELSE IF put_set_bug(sets, r.small) \/ put_set_bug(ss1, r.large) THEN
                  /\ crashed' = "BUG_ON put_set"
                  /\ UNCHANGED <<sets, th>>
              ELSE
                  /\ sets' = put_set(ss1, r.large)
                  /\ th' = [th EXCEPT ![t].small = NULL, ![t].large = NULL, ![t].pos = 1,
                                      ![t].ret = ret,
                                      ![t].pc = IF ret < 0 THEN "destroy" ELSE "db_get"]
                  /\ crashed' = crashed
    /\ UNCHANGED <<blocks, submit_llist, submit_list, writeback_llist, writeback_list,
                   wq, work, inflight, eio, budget, hist>>

\* the caller of ngnfs_block_sync has its result
SyncEnd(t) ==
    /\ crashed = "no"
    /\ th[t].pc = "sync_ret"
    /\ th' = [th EXCEPT ![t] = IdleThread]
    /\ UNCHANGED <<blinf, blocks, sets, submit_llist, submit_list, writeback_llist,
                   writeback_list, wq, work, inflight, eio, budget, crashed, hist>>

\* ------------------------------------------------------ the workqueue thread
\* workqueue_thread takes the oldest work; ngnfs_block_submit_work starts by
\* gathering the intake and computing the space left in the queue depth
SubmitWorkBegin ==
    /\ crashed = "no"
    /\ work.pc = "idle"
    /\ wq # <<>> /\ Head(wq) = "submit"
    /\ IF Range(submit_llist) \cap Range(submit_list) # {}
       THEN Crash("list node added twice")
       ELSE /\ wq' = Tail(wq)
            /\ submit_list' = del_all_reverse_add_tail(submit_list, submit_llist)
            /\ submit_llist' = <<>>
            /\ work' = [work EXCEPT !.pc = "sub_loop",
                                    !.space = blinf.queue_depth - blinf.nr_submitted]
            /\ UNCHANGED <<blinf, blocks, sets, writeback_llist, writeback_list, inflight,
                           eio, th, budget, crashed, hist>>

\* the test at the head of the submit loop: if (space-- < 0) break
submit_has_space(space) == ~(space < 0)

\* one pass of the loop of ngnfs_block_submit_work
SubmitWorkLoop ==
    /\ crashed = "no"
    /\ work.pc = "sub_loop"
    /\ IF submit_list = <<>> \/ ~submit_has_space(work.space) THEN
           /\ work' = [work EXCEPT !.pc = "idle", !.space = 0]
           /\ UNCHANGED <<blinf, blocks, submit_list, inflight>>
       ELSE
           LET b == Head(submit_list)
               op == IF "READING" \in blocks[b].bits THEN "GET_READ" ELSE "WRITE"
           IN  /\ submit_list' = Tail(submit_list)
               /\ blinf' = [blinf EXCEPT !.nr_submitted = @ + 1]
               /\ inflight' = Append(inflight, [bnr |-> b, op |-> op, ver |-> hist.ver[b]])
               /\ blocks' = put_block(blocks, b)
               /\ work' = [work EXCEPT !.space = @ - 1]
    /\ UNCHANGED <<sets, submit_llist, writeback_llist, writeback_list, wq, eio, th,
                   budget, crashed, hist>>

\* ngnfs_block_writeback_work starts by gathering the dirtied sets
WritebackWorkBegin ==
    /\ crashed = "no"
    /\ work.pc = "idle"
    /\ wq # <<>> /\ Head(wq) = "writeback"
    /\ IF Range(writeback_llist) \cap Range(writeback_list) # {}
       THEN Crash("list node added twice")
       ELSE /\ wq' = Tail(wq)
            /\ writeback_list' = del_all_reverse_add_tail(writeback_list, writeback_llist)
            /\ writeback_llist' = <<>>
            /\ work' = [work EXCEPT !.pc = "wb_loop"]
            /\ UNCHANGED <<blinf, blocks, sets, submit_llist, submit_list, inflight,
                           eio, th, budget, crashed, hist>>

\* the head of the loop: should_writeback, BUG_ON(SET_WRITEBACK), set_bit
WritebackWorkLoop ==
    /\ crashed = "no"
    /\ work.pc = "wb_loop"
    /\ IF writeback_list = <<>> \/ ~should_writeback(blinf) THEN
           /\ work' = [work EXCEPT !.pc = "idle", !.set = NULL]
           /\ UNCHANGED <<sets, crashed>>
       ELSE IF "WRITEBACK" \in sets[Head(writeback_list)].bits THEN
           /\ crashed' = "BUG_ON SET_WRITEBACK"
           /\ UNCHANGED <<sets, work>>
       ELSE
           /\ sets' = [sets EXCEPT ![Head(writeback_list)].bits = @ \cup {"WRITEBACK"}]
           /\ work' = [work EXCEPT !.pc = "wb_test", !.set = Head(writeback_list)]
           /\ crashed' = crashed
    /\ UNCHANGED <<blinf, blocks, submit_llist, submit_list, writeback_llist,
                   writeback_list, wq, inflight, eio, th, budget, hist>>

\* a back-off that leaves SET_WRITEBACK on the set
keep_set_writeback(bits) == bits

\* clear_bit_and_wake_up(SET_WRITEBACK) of the back-off
clear_set_writeback(bits) == bits \ {"WRITEBACK"}

\* test_bit(SET_DIRTYING): back off, or the set leaves the list and its size is
\* added to nr_writeback and to submitted_blocks
WritebackWorkTest ==
    /\ crashed = "no"
    /\ work.pc = "wb_test"
    /\ LET s == work.set
           n == sets[s].size
       IN  IF "DIRTYING" \in sets[s].bits THEN
               /\ sets' = [sets EXCEPT ![s].bits = clear_set_writeback(@)]
               /\ work' = [work EXCEPT !.pc = "wb_wait"]
               /\ UNCHANGED <<blinf, writeback_list, hist>>
           ELSE
               /\ writeback_list' = Tail(writeback_list)
               /\ hist' = [hist EXCEPT !.promoted = Append(@, s)]
               /\ IF n > 0 THEN
                      /\ blinf' = [blinf EXCEPT !.nr_writeback = @ + n]
                      /\ sets' = [sets EXCEPT ![s].submitted_blocks = @ + n,
                                              ![s].refcount = @ + 1]
                      /\ work' = [work EXCEPT !.pc = "wb_submit"]
                  ELSE
                      /\ work' = [work EXCEPT !.pc = "wb_seq"]
                      /\ UNCHANGED <<blinf, sets>>
    /\ UNCHANGED <<blocks, submit_llist, submit_list, writeback_llist, wq, inflight,
                   eio, th, budget, crashed>>

\* wait_event(!test_bit(SET_DIRTYING)) and the break out of the loop
WritebackWorkWait ==
    /\ crashed = "no"
    /\ work.pc = "wb_wait"
    /\ "DIRTYING" \notin sets[work.set].bits
    /\ work' = [work EXCEPT !.pc = "idle", !.set = NULL]
    /\ UNCHANGED <<blinf, blocks, sets, submit_llist, submit_list, writeback_llist,
                   writeback_list, wq, inflight, eio, th, budget, crashed, hist>>

\* the blocks of the set are referenced and pushed on the submit intake in the
\* order of the set's list, then try_queue_submit_work
PushAll(list, ll) ==
    IF list = <<>> THEN ll ELSE Reverse(list) \o ll

WritebackWorkSubmit ==
    /\ crashed = "no"
    /\ work.pc = "wb_submit"
    /\ LET list == sets[work.set].block_list
           sll == PushAll(list, submit_llist)
       IN  /\ IF \E b \in Range(list) : b \in Range(submit_llist)
              THEN /\ crashed' = "llist node added twice"
                   /\ UNCHANGED <<blocks, submit_llist, wq, work, hist>>
              ELSE /\ blocks' = [b \in Blocks |->
                                   IF b \in Range(list) THEN get_block(blocks, b)[b]
                                   ELSE blocks[b]]
                   /\ submit_llist' = sll
                   /\ wq' = try_queue_submit_work(blinf, submit_list, sll, wq)
                   /\ work' = [work EXCEPT !.pc = "wb_seq"]
                   /\ crashed' = crashed
                   /\ hist' = [hist EXCEPT !.members[work.set] = Range(list)]
    /\ UNCHANGED <<blinf, sets, submit_list, writeback_llist, writeback_list, inflight,
                   eio, th, budget>>

\* atomic64_inc(&blinf->writeback_seq); put_set(set)
WritebackWorkSeq ==
    /\ crashed = "no"
    /\ work.pc = "wb_seq"
    /\ IF put_set_bug(sets, work.set) THEN Crash("BUG_ON put_set")
       ELSE /\ blinf' = [blinf EXCEPT !.writeback_seq = @ + 1]
            /\ sets' = put_set(sets, work.set)
            /\ work' = [work EXCEPT !.pc = "wb_loop", !.set = NULL]
            /\ UNCHANGED <<blocks, submit_llist, submit_list, writeback_llist,
                           writeback_list, wq, inflight, eio, th, budget, crashed, hist>>

\* ------------------------------------------------------- ngnfs_block_end_io
\* a completion that clears READING without having set UPTODATE
end_read_io_unfilled(bits) == bits \ {"READING"}

\* end_read_io on the block's bits: UPTODATE unless ERROR, then READING clear
end_read_io(bits) ==
    (IF "ERROR" \in bits THEN bits ELSE bits \cup {"UPTODATE"}) \ {"READING"}

\* callers inside the wait of sync_up_to_seq
SyncWaiters == {t \in Threads : th[t].pc \in {"sync_wait", "sync_wait2"}}

\* the buffer after end_read_io: a read that succeeded hands over the page the
\* transport filled, which takes the place of the block's page
end_read_page(page, err) == IF err < 0 THEN page ELSE "read"

\* callers anywhere inside ngnfs_block_get on block b
GetCallers(b) ==
    {t \in Threads : th[t].bnr = b /\ th[t].pc \notin {"idle", "got"}}

\* callers inside ngnfs_block_get on block b that queued or wait for its read
ReadWaiters(b) == {t \in Threads : th[t].pc \in {"get_add", "get_wait"} /\ th[t].bnr = b}

\* The transport completes one submission: lookup_block, the error bit and the
\* sync latch for err < 0, then end_read_io or the head of end_write_io, which
\* reads the block's set and gives its place in nr_writeback back.
EndIo(i, err) ==
    /\ crashed = "no"
    /\ eio.pc = "idle"
    /\ i \in 1..Len(inflight)
    /\ LET b == inflight[i].bnr
           bi1 == IF err < 0 THEN sync_waiters_set_error(blinf) ELSE blinf
           bs1 == IF err < 0
                  THEN [get_block(blocks, b) EXCEPT ![b].bits = @ \cup {"ERROR"},
                                                    ![b].error = err]
                  ELSE get_block(blocks, b)
           bi2 == [bi1 EXCEPT !.nr_writeback = @ - 1]
       IN  IF "READING" \in blocks[b].bits THEN
               \* end_read_io and put_block
               /\ blocks' = [bs1 EXCEPT ![b].bits = end_read_io(@),
                                        ![b].page = end_read_page(@, err),
                                        ![b].refcount = @ - 1]
               /\ blinf' = bi1
               /\ inflight' = RemoveAt(inflight, i)
               /\ hist' = [hist EXCEPT
                             !.rdres = IF hist.rdby[b] \in Threads
                                       THEN [@ EXCEPT ![hist.rdby[b]] =
                                               IF err < 0 THEN "failed" ELSE "ok"]
                                       ELSE @,
                             !.sawfail = IF err < 0 THEN @ \cup ReadWaiters(b) ELSE @,
                             !.raced = IF err < 0 THEN @ \cup GetCallers(b) ELSE @,
                             !.syncerr = IF err < 0 THEN @ \cup SyncWaiters ELSE @,
                             !.filled = IF err < 0 THEN @ ELSE @ \cup {b}]
               /\ UNCHANGED <<wq, eio, crashed>>
           ELSE IF blocks[b].set = NULL THEN
               /\ crashed' = "BUG_ON no set in end_write_io"
               /\ UNCHANGED <<blocks, blinf, inflight, wq, eio, hist>>
           ELSE IF err < 0 THEN
               /\ crashed' = "BUG_ON BL_ERROR in end_write_io"
               /\ hist' = [hist EXCEPT !.syncerr = @ \cup SyncWaiters]
               /\ UNCHANGED <<blocks, blinf, inflight, wq, eio>>
           ELSE
               /\ blocks' = bs1
               /\ blinf' = bi2
               /\ inflight' = RemoveAt(inflight, i)
               /\ wq' = try_queue_writeback_work(bi2, wq)
               /\ eio' = [pc |-> "ew_dec", bnr |-> b, set |-> blocks[b].set]
               /\ hist' = [hist EXCEPT !.durable[b] =
                             IF inflight[i].ver > @ THEN inflight[i].ver ELSE @]
               /\ crashed' = crashed
    /\ UNCHANGED <<sets, submit_llist, submit_list, writeback_llist, writeback_list,
                   work, th, budget>>

\* atomic_dec_return(&set->submitted_blocks): the completion that brings it to
\* zero, or below, takes the set's size off nr_dirty
EndWriteDec ==
    /\ crashed = "no"
    /\ eio.pc = "ew_dec"
    /\ LET s == eio.set
       IN  IF sets[s].submitted_blocks - 1 > 0 THEN
               /\ sets' = [sets EXCEPT ![s].submitted_blocks = @ - 1]
               /\ blocks' = put_block(blocks, eio.bnr)
               /\ eio' = [pc |-> "idle", bnr |-> 0, set |-> NULL]
               /\ blinf' = blinf
           ELSE
               /\ sets' = [sets EXCEPT ![s].submitted_blocks = @ - 1, ![s].size = 0]
               /\ blinf' = [blinf EXCEPT !.nr_dirty = @ - sets[s].size]
               /\ eio' = [eio EXCEPT !.pc = "ew_detach"]
               /\ blocks' = blocks
    /\ UNCHANGED <<submit_llist, submit_list, writeback_llist, writeback_list, wq,
                   work, inflight, th, budget, crashed, hist>>

\* one block leaves the set: list_del_init and bl->set = NULL; after the last,
\* SET_WRITEBACK is cleared, the set is put and the block of the completion too
EndWriteDetach ==
    /\ crashed = "no"
    /\ eio.pc = "ew_detach"
    /\ LET s == eio.set
           list == sets[s].block_list
       IN  IF list # <<>> /\ blocks[Head(list)].set_head # "ok" THEN
               \* list_for_each_entry_safe follows the block's links off the list
               /\ crashed' = "walk of a freed set's list"
               /\ UNCHANGED <<blocks, sets, eio>>
           ELSE IF list # <<>> THEN
               /\ blocks' = [blocks EXCEPT ![Head(list)].set = NULL]
               /\ sets' = [sets EXCEPT ![s].block_list = Tail(list)]
               /\ UNCHANGED <<eio, crashed>>
           ELSE IF put_set_bug(sets, s) THEN
               /\ crashed' = "BUG_ON put_set"
               /\ UNCHANGED <<blocks, sets, eio>>
           ELSE
               /\ sets' = put_set([sets EXCEPT ![s].bits = @ \ {"WRITEBACK"}], s)
               /\ blocks' = put_block(blocks, eio.bnr)
               /\ eio' = [pc |-> "idle", bnr |-> 0, set |-> NULL]
               /\ crashed' = crashed
    /\ UNCHANGED <<blinf, submit_llist, submit_list, writeback_llist, writeback_list,
                   wq, work, inflight, th, budget, hist>>

\* ---------------------------------------------------------- ngnfs_block_get
\* the flags of which a get may pass one
NBF_RW_EXCL == {"READ", "WRITE"}

\* a test that lets every combination of flags through
bad_nbf_none(nbf) == FALSE

\* hweight_long(nbf & NBF_RW_EXCL) > 1
bad_nbf(nbf) == Cardinality(nbf \cap NBF_RW_EXCL) > 1

\* an insert that puts the caller's node in the table next to the one there
add_duplicate(existing, node) == node

\* cds_lfht_add_unique with the key in the table: the node that is there
add_unique(existing, node) == existing

\* the insert of lookup_or_alloc_block, the allocation having succeeded: a
\* block found in the hash table gains the caller's reference, a new one
\* starts with the table's reference and the caller's
lookup_or_alloc_block(bs, b, t) ==
    IF bs[b].refcount > 0 THEN get_block(bs, b)
    ELSE [bs EXCEPT ![b] = [NoBlock EXCEPT !.refcount = 2, !.ent = t]]

\* a tail of ngnfs_block_get that does not look at BL_ERROR
get_error_unseen(bl) == 0

\* what ngnfs_block_get returns at its tail: bl->error if BL_ERROR is set
get_error(bl) == IF "ERROR" \in bl.bits THEN bl.error ELSE 0

\* a caller with gets left calls ngnfs_block_get(bnr, nbf)
GetBegin(t) ==
    /\ crashed = "no"
    /\ th[t].pc = "idle"
    /\ budget.gets[t] # <<>>
    /\ LET g == Head(budget.gets[t])
       IN  th' = [th EXCEPT ![t] = [IdleThread EXCEPT !.pc = "get_lookup",
                                                      !.bnr = g.bnr, !.nbf = g.nbf]]
    /\ budget' = [budget EXCEPT !.gets[t] = Tail(@)]
    /\ hist' = [hist EXCEPT !.rdres[t] = "none", !.sawfail = @ \ {t}, !.alone = @ \ {t},
                             !.raced = @ \ {t}]
    /\ UNCHANGED <<blinf, blocks, sets, submit_llist, submit_list, writeback_llist,
                   writeback_list, wq, work, inflight, eio, crashed>>

\* bad_nbf, then lookup_block: a block in the table is returned with a
\* reference
GetLookup(t) ==
    /\ crashed = "no"
    /\ th[t].pc = "get_lookup"
    /\ LET b == th[t].bnr
       IN  IF bad_nbf(th[t].nbf) THEN
               /\ th' = [th EXCEPT ![t].pc = "got", ![t].ret = -EINVAL]
               /\ UNCHANGED <<blocks, hist>>
           ELSE IF blocks[b].refcount > 0 THEN
               /\ blocks' = get_block(blocks, b)
               /\ th' = [th EXCEPT ![t].pc = IF "NEW" \in th[t].nbf THEN "get_new"
                                             ELSE "get_uptodate",
                                   ![t].ent = blocks[b].ent]
               /\ hist' = [hist EXCEPT !.alone = IF blocks[b].refcount <= 1
                                                 THEN @ \cup {t} ELSE @]
           ELSE
               /\ th' = [th EXCEPT ![t].pc = "get_insert"]
               /\ UNCHANGED <<blocks, hist>>
    /\ UNCHANGED <<blinf, sets, submit_llist, submit_list, writeback_llist,
                   writeback_list, wq, work, inflight, eio, budget, crashed>>

\* alloc_block, which may fail, and rhashtable_lookup_get_insert_fast: the
\* caller whose block is not the one in the table puts its own, which frees it
GetInsert(t) ==
    /\ crashed = "no"
    /\ th[t].pc = "get_insert"
    /\ LET b == th[t].bnr
           found == blocks[b].refcount > 0
       IN  \/ /\ blocks' = lookup_or_alloc_block(blocks, b, t)
              /\ th' = [th EXCEPT ![t].pc = IF "NEW" \in th[t].nbf THEN "get_new"
                                            ELSE "get_uptodate",
                                  ![t].ent = IF found THEN add_unique(blocks[b].ent, t)
                                             ELSE t,
                                  ![t].dup = found]
              /\ hist' = [hist EXCEPT !.alone = IF blocks[b].refcount <= 1
                                                THEN @ \cup {t} ELSE @]
           \/ /\ th' = [th EXCEPT ![t].pc = "got", ![t].ret = -ENOMEM]
              /\ UNCHANGED <<blocks, hist>>
    /\ UNCHANGED <<blinf, sets, submit_llist, submit_list, writeback_llist,
                   writeback_list, wq, work, inflight, eio, budget, crashed>>

\* NBF_NEW: the buffer is zeroed and BL_UPTODATE set
GetNew(t) ==
    /\ crashed = "no"
    /\ th[t].pc = "get_new"
    /\ blocks' = [blocks EXCEPT ![th[t].bnr].bits = @ \cup {"UPTODATE"},
                                ![th[t].bnr].page = "zero"]
    /\ th' = [th EXCEPT ![t].pc = "get_uptodate"]
    /\ hist' = [hist EXCEPT !.filled = @ \cup {th[t].bnr}]
    /\ UNCHANGED <<blinf, sets, submit_llist, submit_list, writeback_llist,
                   writeback_list, wq, work, inflight, eio, budget, crashed>>

\* if (!test_bit(BL_UPTODATE))
GetUptodate(t) ==
    /\ crashed = "no"
    /\ th[t].pc = "get_uptodate"
    /\ th' = [th EXCEPT ![t].pc = IF "UPTODATE" \in blocks[th[t].bnr].bits
                                  THEN "get_err" ELSE "get_reading"]
    /\ UNCHANGED <<blinf, blocks, sets, submit_llist, submit_list, writeback_llist,
                   writeback_list, wq, work, inflight, eio, budget, crashed, hist>>

\* if (!test_and_set_bit(BL_READING)) get_block(bl)
GetReading(t) ==
    /\ crashed = "no"
    /\ th[t].pc = "get_reading"
    /\ LET b == th[t].bnr
       IN  IF "READING" \in blocks[b].bits THEN
               /\ th' = [th EXCEPT ![t].pc = "get_wait"]
               /\ UNCHANGED <<blocks, hist>>
           ELSE
               /\ blocks' = get_block([blocks EXCEPT ![b].bits = @ \cup {"READING"}], b)
               /\ th' = [th EXCEPT ![t].pc = "get_add", ![t].submitted = TRUE]
               /\ hist' = [hist EXCEPT !.rdby[b] = t]
    /\ UNCHANGED <<blinf, sets, submit_llist, submit_list, writeback_llist,
                   writeback_list, wq, work, inflight, eio, budget, crashed>>

\* llist_add(&bl->submit_llnode) and try_queue_submit_work
GetAdd(t) ==
    /\ crashed = "no"
    /\ th[t].pc = "get_add"
    /\ LET b == th[t].bnr
       IN  IF b \in Range(submit_llist) \cup Range(submit_list)
           THEN Crash("list node added twice")
           ELSE LET sll == llist_add(b, submit_llist)
                IN  /\ submit_llist' = sll
                    /\ wq' = try_queue_submit_work(blinf, submit_list, sll, wq)
                    /\ th' = [th EXCEPT ![t].pc = "get_wait"]
                    /\ UNCHANGED <<blinf, blocks, sets, submit_list, writeback_llist,
                                   writeback_list, work, inflight, eio, budget, crashed, hist>>

\* wait_event(&bl->waitq, !test_bit(BL_READING))
GetWait(t) ==
    /\ crashed = "no"
    /\ th[t].pc = "get_wait"
    /\ "READING" \notin blocks[th[t].bnr].bits
    /\ th' = [th EXCEPT ![t].pc = "get_err", ![t].waited = TRUE]
    /\ UNCHANGED <<blinf, blocks, sets, submit_llist, submit_list, writeback_llist,
                   writeback_list, wq, work, inflight, eio, budget, crashed, hist>>

\* if (test_bit(BL_ERROR)) { err = bl->error; put_block(bl); bl = ERR_PTR(err); }
GetErr(t) ==
    /\ crashed = "no"
    /\ th[t].pc = "get_err"
    /\ LET b == th[t].bnr
           err == get_error(blocks[b])
       IN  IF err # 0 THEN
               /\ blocks' = put_block(blocks, b)
               /\ th' = [th EXCEPT ![t].pc = "got", ![t].ret = err]
           ELSE
               /\ th' = [th EXCEPT ![t].pc = "got", ![t].ret = 0, ![t].bl = b]
               /\ UNCHANGED blocks
    /\ UNCHANGED <<blinf, sets, submit_llist, submit_list, writeback_llist,
                   writeback_list, wq, work, inflight, eio, budget, crashed, hist>>

\* the caller is done with what it got: ngnfs_block_put of a block it holds
GetPut(t) ==
    /\ crashed = "no"
    /\ th[t].pc = "got"
    /\ th[t].blks = <<>>
    /\ blocks' = IF th[t].bl # NULL THEN put_block(blocks, th[t].bl) ELSE blocks
    /\ th' = [th EXCEPT ![t] = IdleThread]
    /\ UNCHANGED <<blinf, sets, submit_llist, submit_list, writeback_llist,
                   writeback_list, wq, work, inflight, eio, budget, crashed, hist>>

\* ------------------------------------------- ngnfs_txn_execute, block by block
\* a struct ngnfs_transaction_block as ngnfs_txn_add_block leaves it: prep says
\* what its prepare callback does (none: NULL, ok: returns 0, fail: returns
\* -EIO, add: adds the next block for writing and returns 0)
Tblk(b, nbf, prep) == [bnr |-> b, nbf |-> nbf, prep |-> prep, bl |-> NULL]

\* the test of a prepare's result in ngnfs_txn_execute
prepare_accepted(ret) == FALSE

prepare_failed(ret) == ret < 0

\* what a prepare callback returns
prepare(tblk) == IF tblk.prep = "fail" THEN -EIO ELSE 0

\* the blocks ngnfs_txn_destroy would put whatever tblk->bl holds
txn_puts_all(blks) == [i \in 1..Len(blks) |-> blks[i].bnr]

\* the block pointers ngnfs_txn_destroy hands to ngnfs_block_put that are not
\* NULL, in the order of txn->blocks
txn_puts(blks) ==
    LET held == SelectSeq(blks, LAMBDA k : k.bl # NULL)
    IN  [i \in 1..Len(held) |-> held[i].bl]

\* put_block for each block of a sequence
RECURSIVE put_blocks(_, _)
put_blocks(bs, q) == IF q = <<>> THEN bs ELSE put_blocks(put_block(bs, Head(q)), Tail(q))

\* ngnfs_txn_init and the caller's ngnfs_txn_add_block calls
TxInit(t) ==
    /\ crashed = "no"
    /\ th[t].pc = "idle"
    /\ budget.exec[t] # <<>>
    /\ th' = [th EXCEPT ![t] = [IdleThread EXCEPT !.pc = "tx_ready",
                                                  !.blks = Head(budget.exec[t])]]
    /\ budget' = [budget EXCEPT !.exec[t] = Tail(@)]
    /\ hist' = [hist EXCEPT !.commits[t] = 0, !.taken[t] = <<>>,
                            !.began = @ \ {t}, !.aborted = @ \ {t},
                            !.dirty0 = {b \in Blocks : "DIRTY" \in blocks[b].bits}]
    /\ UNCHANGED <<blinf, blocks, sets, submit_llist, submit_list, writeback_llist,
                   writeback_list, wq, work, inflight, eio, crashed>>

\* the caller calls ngnfs_txn_execute
TxExecute(t) ==
    /\ crashed = "no"
    /\ th[t].pc = "tx_ready"
    /\ th' = [th EXCEPT ![t].pc = "tx_get", ![t].at = 1]
    /\ UNCHANGED <<blinf, blocks, sets, submit_llist, submit_list, writeback_llist,
                   writeback_list, wq, work, inflight, eio, budget, crashed, hist>>

\* the head of the loop over txn->blocks: ngnfs_block_get of the next block,
\* or after the last block ngnfs_block_dirty_begin if txn->writes is not empty
TxExecGet(t) ==
    /\ crashed = "no"
    /\ th[t].pc = "tx_get"
    /\ LET r == th[t]
       IN  IF r.at <= Len(r.blks) THEN
               /\ th' = [th EXCEPT ![t].pc = "get_lookup",
                                   ![t].bnr = r.blks[r.at].bnr,
                                   ![t].nbf = r.blks[r.at].nbf,
                                   ![t].bl = NULL, ![t].ret = 0,
                                   ![t].waited = FALSE, ![t].submitted = FALSE]
               /\ hist' = [hist EXCEPT !.rdres[t] = "none", !.sawfail = @ \ {t},
                                       !.alone = @ \ {t}, !.raced = @ \ {t}]
           ELSE IF r.list = <<>> THEN
               /\ th' = [th EXCEPT ![t].pc = "destroy", ![t].ret = 0]
               /\ UNCHANGED hist
           ELSE
               /\ th' = [th EXCEPT ![t].pc = "db_admit", ![t].pos = 1, ![t].ret = 0]
               /\ hist' = [hist EXCEPT !.began = @ \cup {t}]
    /\ UNCHANGED <<blinf, blocks, sets, submit_llist, submit_list, writeback_llist,
                   writeback_list, wq, work, inflight, eio, budget, crashed>>

\* the rest of the loop body: IS_ERR(bl), tblk->bl = bl, the prepare callback,
\* which may add a block, and list_add_tail on txn->writes
TxExecGot(t) ==
    /\ crashed = "no"
    /\ th[t].pc = "got"
    /\ th[t].blks # <<>>
    /\ LET r == th[t]
           tblk == r.blks[r.at]
           ret == IF tblk.prep = "none" THEN 0 ELSE prepare(tblk)
           added == IF tblk.prep = "add"
                    THEN <<Tblk(tblk.bnr + 1, {"NEW", "WRITE"}, "ok")>> ELSE <<>>
       IN  IF r.ret < 0 THEN
               /\ th' = [th EXCEPT ![t].pc = "destroy"]
               /\ hist' = [hist EXCEPT !.aborted = @ \cup {t}]
           ELSE IF prepare_failed(ret) THEN
               /\ th' = [th EXCEPT ![t].pc = "destroy", ![t].ret = ret,
                                   ![t].blks[r.at].bl = r.bl]
               /\ hist' = [hist EXCEPT !.aborted = @ \cup {t},
                                       !.taken[t] = Append(@, r.bl)]
           ELSE
               /\ th' = [th EXCEPT ![t].pc = "tx_get", ![t].at = r.at + 1,
                                   ![t].blks = [r.blks EXCEPT ![r.at].bl = r.bl] \o added,
                                   ![t].list = IF "WRITE" \in tblk.nbf
                                               THEN Append(r.list, r.bl) ELSE r.list]
               /\ hist' = [hist EXCEPT !.taken[t] = Append(@, r.bl),
                                       !.aborted = IF ret < 0 THEN @ \cup {t} ELSE @]
    /\ UNCHANGED <<blinf, blocks, sets, submit_llist, submit_list, writeback_llist,
                   writeback_list, wq, work, inflight, eio, budget, crashed>>

\* the commit callbacks of the blocks of txn->writes
TxCommit(t) ==
    /\ crashed = "no"
    /\ th[t].pc = "commit"
    /\ hist' = [hist EXCEPT !.ver = [b \in Blocks |->
                                       IF b \in Range(th[t].list) THEN @[b] + 1 ELSE @[b]],
                            !.commits[t] = @ + Len(th[t].list)]
    /\ th' = [th EXCEPT ![t].pc = "dirty_end"]
    /\ UNCHANGED <<blinf, blocks, sets, submit_llist, submit_list, writeback_llist,
                   writeback_list, wq, work, inflight, eio, budget, crashed>>

\* ngnfs_txn_destroy, in whatever state the transaction is: every tblk is
\* unlinked and freed and its bl handed to ngnfs_block_put
TxDestroy(t) ==
    /\ crashed = "no"
    /\ th[t].pc \in {"tx_ready", "destroy", "tx_dead"}
    /\ blocks' = put_blocks(blocks, txn_puts(th[t].blks))
    /\ th' = [th EXCEPT ![t].pc = IF th[t].pc = "tx_dead" THEN "tx_gone" ELSE "tx_dead",
                        ![t].blks = <<>>, ![t].list = <<>>]
    /\ hist' = [hist EXCEPT !.before = IF th[t].pc = "tx_dead" THEN @
                                       ELSE [b \in Blocks |-> blocks[b].refcount]]
    /\ UNCHANGED <<blinf, sets, submit_llist, submit_list, writeback_llist,
                   writeback_list, wq, work, inflight, eio, budget, crashed>>

\* the caller lets go of the destroyed transaction
TxEnd(t) ==
    /\ crashed = "no"
    /\ th[t].pc \in {"tx_dead", "tx_gone"}
    /\ th' = [th EXCEPT ![t] = IdleThread]
    /\ UNCHANGED <<blinf, blocks, sets, submit_llist, submit_list, writeback_llist,
                   writeback_list, wq, work, inflight, eio, budget, crashed, hist>>

\* ------------------------------------------------------------ specification
Next ==
    \/ \E t \in TxnThreads : TxnBegin(t)
    \/ \E t \in TxnThreads : DbAdmit(t)
    \/ \E t \in TxnThreads : DbGet(t)
    \/ \E t \in TxnThreads : DbCmpxchg(t)
    \/ \E t \in TxnThreads : DbDirtying(t)
    \/ \E t \in TxnThreads : DbWaitDirtying(t)
    \/ \E t \in TxnThreads : DbWbtest(t)
    \/ \E t \in TxnThreads : DbWaitWriteback(t)
    \/ \E t \in TxnThreads : DbMark(t)
    \/ \E t \in TxnThreads : DbLlistAdd(t)
    \/ \E t \in TxnThreads : TxnCommit(t)
    \/ \E t \in TxnThreads : DirtyEnd(t)
    \/ \E t \in TxnThreads : TxnDestroy(t)
    \/ \E t \in SyncThreads : SyncBegin(t)
    \/ \E t \in Threads : SyncInc(t)
    \/ \E t \in Threads : SyncWait(t)
    \/ \E t \in Threads : SyncWait2(t)
    \/ \E t \in Threads : SyncDec(t)
    \/ \E t \in SyncThreads : SyncEnd(t)
    \/ SubmitWorkBegin
    \/ SubmitWorkLoop
    \/ WritebackWorkBegin
    \/ WritebackWorkLoop
    \/ WritebackWorkTest
    \/ WritebackWorkWait
    \/ WritebackWorkSubmit
    \/ WritebackWorkSeq
    \/ \E i \in 1..MaxInflight, err \in {0, -EIO} : EndIo(i, err)
    \/ EndWriteDec
    \/ EndWriteDetach

Spec == Init /\ [][Next]_vars

\* ------------------------------------------------- the read path on its own
\* callers of ngnfs_block_get over a transport of queue depth IoQueueDepth; no
\* block is cached at the start
Read(b) == [bnr |-> b, nbf |-> {"READ"}]

New(b) == [bnr |-> b, nbf |-> {"NEW", "WRITE"}]

Both(b) == [bnr |-> b, nbf |-> {"READ", "WRITE"}]

GetPlan(g1, g2, g3) == [txns |-> << <<>>, <<>> >>, syncs |-> 0, gets |-> <<g1, g2, g3>>]

GetPlans ==
    { GetPlan(<<Read(1), Read(1)>>, <<Read(1)>>, <<New(2), Read(2)>>),
      GetPlan(<<Read(1)>>, <<Read(2)>>, <<Read(3)>>),
      GetPlan(<<Read(1)>>, <<New(1)>>, <<Both(1), Both(2)>>),
      GetPlan(<<Read(1), Read(2), Read(3), Read(1)>>, << >>, << >>) }

InitGet ==
    /\ blinf = InitBlinf(IoQueueDepth)
    /\ blocks = [b \in Blocks |-> NoBlock]
    /\ sets = [s \in SetIds |-> NoSet]
    /\ submit_llist = <<>>
    /\ submit_list = <<>>
    /\ writeback_llist = <<>>
    /\ writeback_list = <<>>
    /\ wq = <<>>
    /\ work = [pc |-> "idle", set |-> NULL, space |-> 0]
    /\ inflight = <<>>
    /\ eio = [pc |-> "idle", bnr |-> 0, set |-> NULL]
    /\ th = [t \in Threads |-> IdleThread]
    /\ budget \in GetPlans
    /\ crashed = "no"
    /\ hist = InitHist

NextGet ==
    \/ \E t \in Threads : GetBegin(t)
    \/ \E t \in Threads : GetLookup(t)
    \/ \E t \in Threads : GetInsert(t)
    \/ \E t \in Threads : GetNew(t)
    \/ \E t \in Threads : GetUptodate(t)
    \/ \E t \in Threads : GetReading(t)
    \/ \E t \in Threads : GetAdd(t)
    \/ \E t \in Threads : GetWait(t)
    \/ \E t \in Threads : GetErr(t)
    \/ \E t \in Threads : GetPut(t)
    \/ SubmitWorkBegin
    \/ SubmitWorkLoop
    \/ \E i \in 1..MaxInflight, err \in {0, -EIO} : EndIo(i, err)

SpecGet == InitGet /\ [][NextGet]_vars

\* the workqueue thread runs queued work, the transport completes what it
\* holds and every caller keeps running
FairGet ==
    /\ WF_vars(SubmitWorkBegin)
    /\ WF_vars(SubmitWorkLoop)
    /\ WF_vars(\E i \in 1..MaxInflight, err \in {0, -EIO} : EndIo(i, err))
    /\ \A t \in Threads :
          WF_vars(GetBegin(t) \/ GetLookup(t) \/ GetInsert(t) \/ GetNew(t) \/ GetUptodate(t)
                     \/ GetReading(t) \/ GetAdd(t) \/ GetWait(t) \/ GetErr(t) \/ GetPut(t))

FairSpecGet == InitGet /\ [][NextGet]_vars /\ FairGet

\* ------------------------------------------ the cache over a shallow queue
\* the transactions and syncs of Spec over a transport of queue depth
\* IoQueueDepth, so that a run submits more blocks than the queue is deep
DepthPlans ==
    { Plan(<< <<1>>, <<2>>, <<3>> >>, << >>, 1),
      \* more dirty blocks than one pass of the submit work sends
      Plan(<< <<1>>, <<2, 3, 4>> >>, << >>, 1),
      Plan(<< <<1>>, <<1>> >>, << <<1>> >>, 1) }

InitDepth == InitOver(DepthPlans, IoQueueDepth)

SpecDepth == InitDepth /\ [][Next]_vars

\* ------------------------------------------- the cache at the dirty limit
\* one caller dirties DIRTY_LIMIT blocks in two transactions while the other
\* is inside ngnfs_block_dirty_begin for one of them
LimitPlans ==
    { Plan(<< <<4>> >>, << <<1, 2, 3>>, <<4, 5>> >>, 0),
      Plan(<< <<1>>, <<1>> >>, << <<1>> >>, 1) }

InitLimit == InitOver(LimitPlans, BTR_MSG_QUEUE_DEPTH)

SpecLimit == InitLimit /\ [][Next]_vars

\* ------------------------------------- a merge into a set that is not dirty
\* a list whose first block is clean and whose second is dirty: the dirty
\* block's set is merged into the new set of the clean one, and the third
\* block makes the caller back off
MergePlans ==
    { Plan(<< <<1>>, <<2, 4>>, <<3, 1, 2>> >>, << >>, 0),
      Plan(<< <<1>>, <<3, 1, 2>> >>, << <<2>> >>, 0),
      \* two dirty sets of one block each, the older one first in the list
      Plan(<< <<1>>, <<2>>, <<1, 2>> >>, << >>, 1),
      \* a dirty set is merged away while another caller is about to dirty it
      Plan(<< <<1, 2>> >>, << <<2>>, <<2>> >>, 0),
      Plan(<< <<1>>, <<1>> >>, << <<1>> >>, 1) }

InitMerge == InitOver(MergePlans, BTR_MSG_QUEUE_DEPTH)

SpecMerge == InitMerge /\ [][Next]_vars

\* ------------------------------------- transactions over overlapping lists
\* two callers whose write lists name the same blocks in opposite orders
OrderPlans ==
    { Plan(<< <<1>>, <<1, 2>> >>, << <<2, 1>> >>, 1) }

InitOrder == InitWith(OrderPlans)

SpecOrder == InitOrder /\ [][Next]_vars

\* ------------------------------------------------- transactions on their own
\* one caller sets up, executes and destroys transactions block by block; no
\* block is cached at the start and the writeback work is not asked to run
TxPlan(e) ==
    [txns |-> << <<>>, <<>> >>, syncs |-> 0, gets |-> << <<>>, <<>>, <<>> >>,
     exec |-> <<e, <<>> >>]

TxPlans ==
    { TxPlan(<< <<Tblk(1, {"NEW", "WRITE"}, "ok"), Tblk(2, {"READ"}, "none")>>,
                <<Tblk(1, {"WRITE"}, "ok"), Tblk(3, {"NEW", "WRITE"}, "fail")>> >>),
      TxPlan(<< <<Tblk(1, {"NEW", "WRITE"}, "add")>>,
                <<Tblk(2, {"READ"}, "ok"), Tblk(1, {"WRITE"}, "none")>> >>),
      TxPlan(<< << >>, <<Tblk(1, {"READ"}, "fail"), Tblk(2, {"NEW", "WRITE"}, "ok")>> >>) }

InitTxn ==
    /\ blinf = InitBlinf(BTR_MSG_QUEUE_DEPTH)
    /\ blocks = [b \in Blocks |-> NoBlock]
    /\ sets = [s \in SetIds |-> NoSet]
    /\ submit_llist = <<>>
    /\ submit_list = <<>>
    /\ writeback_llist = <<>>
    /\ writeback_list = <<>>
    /\ wq = <<>>
    /\ work = [pc |-> "idle", set |-> NULL, space |-> 0]
    /\ inflight = <<>>
    /\ eio = [pc |-> "idle", bnr |-> 0, set |-> NULL]
    /\ th = [t \in Threads |-> IdleThread]
    /\ budget \in TxPlans
    /\ crashed = "no"
    /\ hist = InitHist

NextTxn ==
    \/ \E t \in TxnThreads : TxInit(t)
    \/ \E t \in TxnThreads : TxExecute(t)
    \/ \E t \in TxnThreads : TxExecGet(t)
    \/ \E t \in TxnThreads : GetLookup(t)
    \/ \E t \in TxnThreads : GetInsert(t)
    \/ \E t \in TxnThreads : GetNew(t)
    \/ \E t \in TxnThreads : GetUptodate(t)
    \/ \E t \in TxnThreads : GetReading(t)
    \/ \E t \in TxnThreads : GetAdd(t)
    \/ \E t \in TxnThreads : GetWait(t)
    \/ \E t \in TxnThreads : GetErr(t)
    \/ \E t \in TxnThreads : TxExecGot(t)
    \/ \E t \in TxnThreads : DbAdmit(t)
    \/ \E t \in TxnThreads : DbGet(t)
    \/ \E t \in TxnThreads : DbCmpxchg(t)
    \/ \E t \in TxnThreads : DbDirtying(t)
    \/ \E t \in TxnThreads : DbWbtest(t)
    \/ \E t \in TxnThreads : DbMark(t)
    \/ \E t \in TxnThreads : DbLlistAdd(t)
    \/ \E t \in TxnThreads : TxCommit(t)
    \/ \E t \in TxnThreads : DirtyEnd(t)
    \/ \E t \in TxnThreads : TxDestroy(t)
    \/ \E t \in TxnThreads : TxEnd(t)
    \/ SubmitWorkBegin
    \/ SubmitWorkLoop
    \/ \E i \in 1..MaxInflight, err \in {0, -EIO} : EndIo(i, err)

SpecTxn == InitTxn /\ [][NextTxn]_vars

\* ------------------------------------- gets, transactions and syncs together
\* callers of ngnfs_txn_execute, of ngnfs_block_get and of ngnfs_block_sync over
\* one cache in which no block is cached at the start
MixPlan(e1, e2, g, n) ==
    [txns |-> << <<>>, <<>> >>, syncs |-> n, gets |-> << <<>>, g, <<>> >>,
     exec |-> <<e1, e2>>]

Wr(b) == Tblk(b, {"WRITE"}, "none")

NewWr(b) == Tblk(b, {"NEW", "WRITE"}, "none")

MixPlans ==
    { \* a block is read by one caller and made new and dirtied by another
      MixPlan(<< <<NewWr(1)>> >>, << >>, <<Read(1)>>, 1),
      \* two transactions dirty the same block
      MixPlan(<< <<NewWr(1)>> >>, << <<NewWr(1)>> >>, << >>, 0),
      \* a transaction over two dirty sets and a new block, beside a read
      MixPlan(<< <<NewWr(1), NewWr(2)>>, <<NewWr(4)>>, <<NewWr(3), Wr(1), Wr(4)>> >>,
              << >>, <<Read(5)>>, 0) }

InitMix ==
    /\ blinf = InitBlinf(BTR_MSG_QUEUE_DEPTH)
    /\ blocks = [b \in Blocks |-> NoBlock]
    /\ sets = [s \in SetIds |-> NoSet]
    /\ submit_llist = <<>>
    /\ submit_list = <<>>
    /\ writeback_llist = <<>>
    /\ writeback_list = <<>>
    /\ wq = <<>>
    /\ work = [pc |-> "idle", set |-> NULL, space |-> 0]
    /\ inflight = <<>>
    /\ eio = [pc |-> "idle", bnr |-> 0, set |-> NULL]
    /\ th = [t \in Threads |-> IdleThread]
    /\ budget \in MixPlans
    /\ crashed = "no"
    /\ hist = InitHist

NextMix ==
    \/ \E t \in TxnThreads : TxInit(t)
    \/ \E t \in TxnThreads : TxExecute(t)
    \/ \E t \in TxnThreads : TxExecGet(t)
    \/ \E t \in TxnThreads : TxExecGot(t)
    \/ \E t \in TxnThreads : TxCommit(t)
    \/ \E t \in TxnThreads : TxDestroy(t)
    \/ \E t \in TxnThreads : TxEnd(t)
    \/ \E t \in Threads : GetBegin(t)
    \/ \E t \in Threads : GetLookup(t)
    \/ \E t \in Threads : GetInsert(t)
    \/ \E t \in Threads : GetNew(t)
    \/ \E t \in Threads : GetUptodate(t)
    \/ \E t \in Threads : GetReading(t)
    \/ \E t \in Threads : GetAdd(t)
    \/ \E t \in Threads : GetWait(t)
    \/ \E t \in Threads : GetErr(t)
    \/ \E t \in Threads : GetPut(t)
    \/ \E t \in TxnThreads : DbAdmit(t)
    \/ \E t \in TxnThreads : DbGet(t)
    \/ \E t \in TxnThreads : DbCmpxchg(t)
    \/ \E t \in TxnThreads : DbDirtying(t)
    \/ \E t \in TxnThreads : DbWaitDirtying(t)
    \/ \E t \in TxnThreads : DbWbtest(t)
    \/ \E t \in TxnThreads : DbWaitWriteback(t)
    \/ \E t \in TxnThreads : DbMark(t)
    \/ \E t \in TxnThreads : DbLlistAdd(t)
    \/ \E t \in TxnThreads : DirtyEnd(t)
    \/ \E t \in SyncThreads : SyncBegin(t)
    \/ \E t \in Threads : SyncInc(t)
    \/ \E t \in Threads : SyncWait(t)
    \/ \E t \in Threads : SyncWait2(t)
    \/ \E t \in Threads : SyncDec(t)
    \/ \E t \in SyncThreads : SyncEnd(t)
    \/ SubmitWorkBegin
    \/ SubmitWorkLoop
    \/ WritebackWorkBegin
    \/ WritebackWorkLoop
    \/ WritebackWorkTest
    \/ WritebackWorkWait
    \/ WritebackWorkSubmit
    \/ WritebackWorkSeq
    \/ \E i \in 1..MaxInflight, err \in {0, -EIO} : EndIo(i, err)
    \/ EndWriteDec
    \/ EndWriteDetach

SpecMix == InitMix /\ [][NextMix]_vars

\* ------------------------------------- syncs beside a read that can fail
\* the transactions and syncs of Spec over cached blocks, and callers of
\* ngnfs_block_get for block UncachedBlock, which is not cached at the start
UncachedBlock == NumBlocks

LatchPlan(l1, l2, g2, g3, n) ==
    [txns |-> <<l1, l2>>, syncs |-> n, gets |-> << <<>>, g2, g3>>]

LatchPlans ==
    { \* a transaction backs off into sync_up_to_seq beside a caller of
      \* ngnfs_block_sync while a read is at the transport
      LatchPlan(<< <<1, 2>>, <<3, 4, 1>> >>, << >>, <<Read(UncachedBlock)>>, << >>, 1),
      LatchPlan(<< <<1>>, <<1>> >>, << <<1>> >>, << >>, << >>, 1),
      LatchPlan(<< >>, << >>, <<Read(UncachedBlock)>>,
                <<New(UncachedBlock), Read(UncachedBlock)>>, 0) }

InitLatch ==
    /\ blinf = InitBlinf(BTR_MSG_QUEUE_DEPTH)
    /\ blocks = [b \in Blocks |-> IF b = UncachedBlock THEN NoBlock ELSE InitBlock]
    /\ sets = [s \in SetIds |-> NoSet]
    /\ submit_llist = <<>>
    /\ submit_list = <<>>
    /\ writeback_llist = <<>>
    /\ writeback_list = <<>>
    /\ wq = <<>>
    /\ work = [pc |-> "idle", set |-> NULL, space |-> 0]
    /\ inflight = <<>>
    /\ eio = [pc |-> "idle", bnr |-> 0, set |-> NULL]
    /\ th = [t \in Threads |-> IdleThread]
    /\ budget \in LatchPlans
    /\ crashed = "no"
    /\ hist = InitHist

NextLatch ==
    \/ Next
    \/ \E t \in Threads : GetBegin(t)
    \/ \E t \in Threads : GetLookup(t)
    \/ \E t \in Threads : GetInsert(t)
    \/ \E t \in Threads : GetNew(t)
    \/ \E t \in Threads : GetUptodate(t)
    \/ \E t \in Threads : GetReading(t)
    \/ \E t \in Threads : GetAdd(t)
    \/ \E t \in Threads : GetWait(t)
    \/ \E t \in Threads : GetErr(t)
    \/ \E t \in Threads : GetPut(t)

SpecLatch == InitLatch /\ [][NextLatch]_vars

\* ------------------------------------------------------------------- claims
RECURSIVE SumSizes(_)
SumSizes(S) ==
    IF S = {} THEN 0
    ELSE LET s == CHOOSE x \in S : TRUE IN sets[s].size + SumSizes(S \ {s})

\* the transaction is between a successful dirty_begin and its dirty_end
InCommit(t) == th[t].pc \in {"commit", "dirty_end"}

\* dirty_begin returns success in this step
Returns(t) == th[t].pc # "commit" /\ th'[t].pc = "commit"

\* a write of the block is queued for submission or is at the transport
WritePending(b) ==
    \/ b \in Range(submit_llist) \cup Range(submit_list)
    \/ \E i \in 1..Len(inflight) : inflight[i].bnr = b /\ inflight[i].op = "WRITE"
    \/ work.pc = "wb_submit" /\ b \in Range(sets[work.set].block_list)

\* no caller, and no completion, is in the middle of an operation
Quiescent ==
    /\ \A t \in Threads : th[t].pc = "idle"
    /\ eio.pc = "idle"

Promoted(s) == s \in Range(hist.promoted)

\* dirty_begin marks the blocks of its set in this step
Marks(t) == th[t].pc = "db_mark" /\ th'[t].pc \in {"db_llist_add", "commit"}

\* C1: when dirty_begin returns success every block of the list points to one
\* set, the set the caller holds DIRTYING on
C1_OneSetHeld ==
    [][\A t \in TxnThreads : Returns(t) =>
          \A b \in Range(th'[t].list) :
              /\ blocks'[b].set = th'[t].held
              /\ "DIRTYING" \in sets'[th'[t].held].bits]_vars

\* C2: no transaction is in its commit phase on a block whose write is queued
\* or in flight
C2_NoCommitUnderWriteback ==
    \A t \in TxnThreads : InCommit(t) => \A b \in Range(th[t].list) : ~WritePending(b)

\* C3: two transactions in their commit phase have no block in common
C3_CommitExclusive ==
    \A t, u \in TxnThreads :
        t # u /\ InCommit(t) /\ InCommit(u) => Range(th[t].list) \cap Range(th[u].list) = {}

\* C4: sync returns 0 only after a write that carries every commit that was
\* dirty at the call has completed
C4_SyncWritesDirty ==
    \A t \in SyncThreads : th[t].pc = "sync_ret" /\ th[t].ret = 0 =>
        \A b \in Blocks : hist.durable[b] >= hist.owed[b]

\* C5: writeback takes the sets in the order of their dirty_seq
C5_WritebackInSeqOrder ==
    \A s, u \in SetIds :
        /\ sets[s].dirty_seq # UNINIT /\ sets[u].dirty_seq # UNINIT
        /\ sets[s].dirty_seq < sets[u].dirty_seq
        /\ Promoted(u)
        => Promoted(s)

\* C6: while the write of a block that was submitted for a set is queued or in
\* flight, all the blocks submitted for the set still point to it and the set
\* has SET_WRITEBACK
C6_DissolveAfterAllCompletions ==
    \A s \in SetIds :
        (\E b \in hist.members[s] : WritePending(b) /\ blocks[b].set \in {s, NULL}) =>
            /\ \A b \in hist.members[s] : blocks[b].set = s
            /\ "WRITEBACK" \in sets[s].bits

\* C7: with no operation in progress nr_dirty is the sum of the sizes of the
\* dirty sets, and not negative
C7_DirtyAccounting ==
    Quiescent =>
        /\ blinf.nr_dirty = SumSizes({s \in SetIds : "DIRTY" \in sets[s].bits})
        /\ blinf.nr_dirty >= 0

\* C8: no set has more than SET_LIMIT blocks
C8_SetLimit == \A s \in SetIds : sets[s].size <= SET_LIMIT

\* C9: a sync call that returns 0 read nr_writeback == 0 at a moment when
\* writeback_seq had reached the dirty_seq read at its entry
C9_SyncFence ==
    \A t \in SyncThreads : th[t].pc = "sync_ret" /\ th[t].ret = 0 => th[t].fence

\* a sync call that found a dirty block returns 0 after the block's write
C9_SyncReturned ==
    \E t \in SyncThreads :
        /\ th[t].pc = "sync_ret" /\ th[t].ret = 0 /\ th[t].seq > 0 /\ th[t].fence
        /\ \E b \in Blocks : hist.owed[b] > 0 /\ hist.durable[b] >= hist.owed[b]

\* C10: when dirty_begin has walked its set to mark it, every block of the
\* caller's list is BL_DIRTY and nr_dirty was incremented once for each block
\* of the set that was not BL_DIRTY when the walk started
C10_AllDirtyCounted ==
    [][\A t \in TxnThreads : Marks(t) =>
          /\ \A b \in Range(th[t].list) : "DIRTY" \in blocks'[b].bits
          /\ th'[t].incs = Cardinality({b \in Range(sets[th[t].large].block_list) :
                                            "DIRTY" \notin blocks[b].bits})]_vars


\* C11: with one completion per submit and fair scheduling every call of
\* ngnfs_block_get returns, however many blocks were submitted before it
C11_GetReturns ==
    \A t \in Threads : (th[t].pc = "get_wait") ~> (th[t].pc = "got")

\* a caller of ngnfs_block_sync is inside the wait of sync_up_to_seq
SyncWaiting(t) == th[t].pc \in {"sync_wait", "sync_wait2"}

\* every transaction is over and destroyed, no work is queued or running and
\* the transport has delivered every completion
Settled ==
    /\ \A t \in TxnThreads : th[t].pc = "idle" /\ budget.txns[t] = <<>>
    /\ wq = <<>> /\ work.pc = "idle"
    /\ inflight = <<>> /\ eio.pc = "idle"

\* C12: with every write completing without error and no transaction left to
\* run, a caller of ngnfs_block_sync is not left waiting: once every worker and
\* the transport have done all they can, the condition it waits for is true
C12_SyncReturns ==
    \A t \in SyncThreads :
        (/\ crashed = "no"
         /\ SyncWaiting(t)
         /\ Settled
         /\ \A b \in Blocks : "ERROR" \notin blocks[b].bits)
        => /\ sync_seq_reached(blinf, th[t].seq)
           /\ sync_none_in_flight(blinf)

\* a transaction waits in dirty_begin for SET_DIRTYING or SET_WRITEBACK to
\* clear, or the writeback work waits for SET_DIRTYING
BlockedOnBit ==
    \/ \E t \in TxnThreads : th[t].pc \in {"db_wait_dirtying", "db_wait_writeback"}
    \/ work.pc = "wb_wait"

\* the wait of sync_up_to_seq cannot end in this state
SyncStuck(t) ==
    /\ ~sync_waiters_has_error(blinf)
    /\ ~(sync_seq_reached(blinf, th[t].seq) /\ sync_none_in_flight(blinf))

\* every step of the program but the re-tests of the wait of sync_up_to_seq
Steps ==
    \/ \E t \in TxnThreads : TxnBegin(t)
    \/ \E t \in TxnThreads : DbAdmit(t)
    \/ \E t \in TxnThreads : DbGet(t)
    \/ \E t \in TxnThreads : DbCmpxchg(t)
    \/ \E t \in TxnThreads : DbDirtying(t)
    \/ \E t \in TxnThreads : DbWaitDirtying(t)
    \/ \E t \in TxnThreads : DbWbtest(t)
    \/ \E t \in TxnThreads : DbWaitWriteback(t)
    \/ \E t \in TxnThreads : DbMark(t)
    \/ \E t \in TxnThreads : DbLlistAdd(t)
    \/ \E t \in TxnThreads : TxnCommit(t)
    \/ \E t \in TxnThreads : DirtyEnd(t)
    \/ \E t \in TxnThreads : TxnDestroy(t)
    \/ \E t \in SyncThreads : SyncBegin(t)
    \/ \E t \in Threads : SyncInc(t)
    \/ \E t \in Threads : SyncDec(t)
    \/ \E t \in SyncThreads : SyncEnd(t)
    \/ SubmitWorkBegin
    \/ SubmitWorkLoop
    \/ WritebackWorkBegin
    \/ WritebackWorkLoop
    \/ WritebackWorkTest
    \/ WritebackWorkWait
    \/ WritebackWorkSubmit
    \/ WritebackWorkSeq
    \/ \E i \in 1..MaxInflight, err \in {0, -EIO} : EndIo(i, err)
    \/ EndWriteDec
    \/ EndWriteDetach

\* C13: no reachable state has a transaction or the writeback work waiting for
\* a DIRTYING or WRITEBACK bit while no thread is left that can take a step
C13_NoBitDeadlock ==
    (/\ crashed = "no"
     /\ BlockedOnBit
     /\ \A t \in Threads : SyncWaiting(t) => SyncStuck(t))
    => ENABLED Steps

\* C14: the submissions counted in nr_submitted, the one being made included,
\* never exceed queue_depth, and the transport never holds more than
\* queue_depth submissions
C14_SubmitWithinDepth ==
    /\ blinf.nr_submitted <= blinf.queue_depth
    /\ Len(inflight) <= blinf.queue_depth

\* ngnfs_block_get without NBF_NEW has returned a block to caller t
GotBlock(t) == th[t].pc = "got" /\ th[t].ret = 0 /\ "NEW" \notin th[t].nbf

\* C15: a block that ngnfs_block_get returns without NBF_NEW is UPTODATE and was
\* filled by a read that completed without error (or zeroed by an NBF_NEW get),
\* and a caller that waited on READING finds UPTODATE or ERROR once READING is
\* clear, never neither
C15_UptodateBeforeWake ==
    \A t \in Threads :
        /\ GotBlock(t) =>
              /\ "UPTODATE" \in blocks[th[t].bnr].bits
              /\ th[t].bnr \in hist.filled
        /\ (/\ th[t].pc \in {"get_wait", "get_err"}
            /\ "READING" \notin blocks[th[t].bnr].bits)
           => blocks[th[t].bnr].bits \cap {"UPTODATE", "ERROR"} # {}

\* a caller waited for the read of its block and was returned the block
C15_GotAfterWait ==
    \E t \in Threads : GotBlock(t) /\ th[t].waited /\ hist.rdres[t] = "ok"

\* the callers inside or back from ngnfs_block_get that hold a reference on b
GetHolders(b) ==
    {t \in Threads :
        /\ th[t].bnr = b
        /\ \/ th[t].pc \in {"get_new", "get_uptodate", "get_reading", "get_add",
                            "get_wait", "get_err"}
           \/ th[t].pc = "got" /\ th[t].ret = 0}

\* the references held for b's presence on the submit lists
GetQueued(b) ==
    Cardinality({t \in Threads : th[t].pc = "get_add" /\ th[t].bnr = b})
    + (IF b \in Range(submit_llist) \cup Range(submit_list) THEN 1 ELSE 0)

\* C16: a caller that was waiting for a block's read when the read completed
\* with an error is returned that error and no block, and the reference it
\* took is gone: the block's count is the hash table's reference plus those
\* of the other holders
C16_ReadErrorReturned ==
    \A t \in Threads :
        (th[t].pc = "got" /\ t \in hist.sawfail) =>
            /\ th[t].ret < 0
            /\ th[t].ret = blocks[th[t].bnr].error
            /\ th[t].bl = NULL
            /\ blocks[th[t].bnr].refcount =
                   1 + Cardinality(GetHolders(th[t].bnr)) + GetQueued(th[t].bnr)

\* two callers waited for the same read, it failed, and both are back with
\* the error
C16_BothFailed ==
    \E t, u \in Threads :
        /\ t # u /\ th[t].bnr = th[u].bnr
        /\ {t, u} \subseteq hist.sawfail
        /\ th[t].pc = "got" /\ th[u].pc = "got"
        /\ th[t].ret = -EIO /\ th[u].ret = -EIO

\* C17: a failed read does not outlive the callers that saw it: a get that
\* found the block held by nobody and queued a new read of it, the read
\* having completed without error and no read of the block having failed
\* during the get, returns the block
C17_ErrorNotSticky ==
    \A t \in Threads :
        (/\ th[t].pc = "got"
         /\ t \in hist.alone
         /\ th[t].submitted
         /\ hist.rdres[t] = "ok"
         /\ t \notin hist.raced)
        => th[t].ret = 0

\* C18: a completion that reports an error while callers wait inside sync,
\* be it of a read or of a write, leaves the process running, and each of
\* those callers returns EIO
C18_SyncSurvivesError ==
    \A t \in hist.syncerr :
        /\ crashed = "no"
        /\ th[t].pc = "sync_ret" => th[t].ret = -EIO

\* ngnfs_txn_execute has returned to caller t, or its transaction is destroyed
Executed(t) == th[t].pc \in {"destroy", "tx_dead", "tx_gone"}

DirtyBlocks == {b \in Blocks : "DIRTY" \in blocks[b].bits}

\* C19: commit callbacks run only once the get and the prepare of every block
\* of the transaction, those a prepare added included, have succeeded; after
\* a failed get or prepare execute returns the error, no commit has run,
\* dirty_begin was not called and no block became DIRTY
C19_CommitAfterAllPrepared ==
    \A t \in TxnThreads :
        /\ (hist.commits[t] > 0 /\ th[t].pc \in {"dirty_end", "destroy"}) =>
              /\ t \notin hist.aborted
              /\ \A i \in 1..Len(th[t].blks) : th[t].blks[i].bl = th[t].blks[i].bnr
              /\ Len(hist.taken[t]) = Len(th[t].blks)
        /\ (t \in hist.aborted /\ Executed(t)) =>
              /\ th[t].ret < 0
              /\ hist.commits[t] = 0
              /\ t \notin hist.began
              /\ DirtyBlocks = hist.dirty0

\* execute failed at a prepare after it had acquired blocks to write
C19_FailedAfterGets ==
    \E t \in TxnThreads :
        /\ t \in hist.aborted /\ th[t].pc = "destroy"
        /\ th[t].list # <<>> /\ Len(hist.taken[t]) > 1

\* how many of the references execute acquired for caller t are on block b
Taken(t, b) == Cardinality({i \in 1..Len(hist.taken[t]) : hist.taken[t][i] = b})

\* C20: after ngnfs_txn_destroy, of a transaction never executed, failed at
\* any get or prepare, or completed, every block has lost exactly the
\* references execute had acquired on it, and a second destroy changes none
C20_DestroyReleasesTaken ==
    \A t \in TxnThreads :
        th[t].pc \in {"tx_dead", "tx_gone"} =>
            \A b \in Blocks : blocks[b].refcount = hist.before[b] - Taken(t, b)

\* a transaction that failed after acquiring blocks has been destroyed twice
C20_DestroyedTwice ==
    \E t \in TxnThreads :
        /\ th[t].pc = "tx_gone"
        /\ t \in hist.aborted
        /\ Len(hist.taken[t]) > 0

\* C21: a caller that got a block with NBF_NEW neither queued a read nor waited
\* for one, and for as long as it holds the block, nothing having been
\* committed to it, the block's buffer holds zeroes, also when a read of the
\* block was in flight at the call and completes afterwards
NewHolder(t) ==
    th[t].pc = "got" /\ th[t].ret = 0 /\ th[t].bl # NULL /\ "NEW" \in th[t].nbf

C21_NewStaysZero ==
    \A t \in Threads :
        NewHolder(t) =>
            /\ ~th[t].waited
            /\ ~th[t].submitted
            /\ blocks[th[t].bl].page = "zero"

\* C22: a caller of ngnfs_block_dirty_begin starts a pass over its list, the
\* first one or one that follows a wait inside the call, only while nr_dirty
\* is below DIRTY_LIMIT
StartsPass(t) == th[t].pc # "db_get" /\ th'[t].pc = "db_get" /\ th'[t].pos = 1

C22_PassBelowLimit ==
    [][\A t \in TxnThreads : StartsPass(t) => blinf.nr_dirty < DIRTY_LIMIT]_vars

\* C23: when no operation is in progress, a block's set pointer is NULL or
\* names a set whose block_list holds the block, a set's block_list holds only
\* blocks that point to the set, and no block is on the lists of two sets
OnList(b, s) == \E i \in 1..Len(sets[s].block_list) : sets[s].block_list[i] = b

AtRest == Quiescent /\ work.pc = "idle" /\ crashed = "no"

C23_SetLinksAgree ==
    AtRest =>
        /\ \A b \in Blocks : blocks[b].set_head = "ok"
        /\ \A b \in Blocks : blocks[b].set # NULL => OnList(b, blocks[b].set)
        /\ \A s \in SetIds : \A b \in Blocks : OnList(b, s) => blocks[b].set = s
        /\ \A s \in SetIds : \A i, j \in 1..Len(sets[s].block_list) :
               sets[s].block_list[i] = sets[s].block_list[j] => i = j

\* C24: a get whose flags hold both NBF_READ and NBF_WRITE returns -EINVAL and
\* leaves the cache as it was: no block enters the hash table, no reference
\* is taken and no read is queued
BothFlags(t) == {"READ", "WRITE"} \subseteq th[t].nbf

C24_BadFlagsRejected ==
    [][\A t \in Threads :
          (th[t].pc = "get_lookup" /\ BothFlags(t) /\ th'[t] # th[t]) =>
              /\ th'[t].pc = "got"
              /\ th'[t].ret = -EINVAL
              /\ th'[t].bl = NULL
              /\ UNCHANGED <<blocks, submit_llist, submit_list, inflight, wq>>]_vars

C24_Rejected ==
    \E t \in Threads : th[t].pc = "got" /\ BothFlags(t) /\ th[t].ret = -EINVAL

\* C25: the callers that hold a block of one number hold the same struct
\* ngnfs_block, the one in the hash table, also the callers that found the
\* number missing, allocated a block and lost the insert to another caller
Holds(t) == th[t].ent # NULL /\ th[t].pc # "idle"

C25_OneEntryPerNumber ==
    \A t \in Threads : Holds(t) => th[t].ent = blocks[th[t].bnr].ent

C25_LostTheInsert ==
    \E t, u \in Threads :
        /\ t # u
        /\ th[t].bnr = th[u].bnr
        /\ th[t].pc = "got" /\ th[t].bl # NULL /\ th[t].dup
        /\ th[u].pc = "got" /\ th[u].bl # NULL /\ th[u].ent = u

\* C26: from the return of a successful ngnfs_block_dirty_begin to the matching
\* ngnfs_block_dirty_end the set the caller holds keeps its blocks (nobody
\* attaches a block to it, merges it or dissolves it), and the set on which
\* dirty_end clears SET_DIRTYING is that set
EndsDirty(t) == th[t].pc = "dirty_end" /\ th'[t].pc # "dirty_end"

C26_HeldSetStable ==
    [][\A t \in TxnThreads :
          InCommit(t) =>
              /\ Range(sets'[th[t].held].block_list) = Range(sets[th[t].held].block_list)
              /\ EndsDirty(t) => blocks[th[t].list[1]].set = th[t].held]_vars

\* C27: a block with BL_DIRTY whose set nobody holds SET_DIRTYING on is in a
\* set that has SET_DIRTY and a dirty_seq and that writeback will reach: the
\* set is on the writeback intake list or the writeback list, or it has
\* SET_WRITEBACK
Unheld(b) ==
    /\ "DIRTY" \in blocks[b].bits
    /\ blocks[b].set # NULL
    /\ "DIRTYING" \notin sets[blocks[b].set].bits
    /\ \A t \in TxnThreads : blocks[b].set \notin {th[t].small, th[t].large, th[t].held}

WritebackReaches(s) ==
    \/ s \in Range(writeback_llist) \cup Range(writeback_list)
    \/ "WRITEBACK" \in sets[s].bits

C27_DirtyReachable ==
    \A b \in Blocks :
        Unheld(b) =>
            /\ "DIRTY" \in sets[blocks[b].set].bits
            /\ sets[blocks[b].set].dirty_seq # UNINIT
            /\ WritebackReaches(blocks[b].set)

\* C28: when end_write_io has handled the last write completion of a set, no
\* block that was submitted for the set points to it any more, and the blocks
\* it left without a set do not have BL_DIRTY, so that the next dirty_begin
\* marks and counts them again
LastWriteDone == eio.pc = "ew_detach" /\ eio'.pc = "idle"

C28_CleanAfterLastWrite ==
    [][LastWriteDone =>
          \A b \in hist.members[eio.set] :
              /\ blocks'[b].set # eio.set
              /\ blocks'[b].set = NULL => "DIRTY" \notin blocks'[b].bits]_vars

\* C29: when ngnfs_block_dirty_begin has returned an error, no set has
\* SET_DIRTYING on the caller's behalf, every block of the caller's list
\* that is not BL_DIRTY, and that no other caller is working on, is in no
\* set, and the call has added nothing to nr_dirty
BeginFailed(t) == th[t].pc = "destroy" /\ th[t].ret < 0 /\ th[t].list # <<>>

Others(t) == TxnThreads \ {t}

C29_FailedBeginUndone ==
    \A t \in TxnThreads :
        BeginFailed(t) =>
            /\ \A s \in SetIds :
                   "DIRTYING" \in sets[s].bits =>
                       \E u \in Others(t) : s \in {th[u].small, th[u].large, th[u].held}
            /\ \A b \in Range(th[t].list) :
                   (/\ "DIRTY" \notin blocks[b].bits
                    /\ \A u \in Others(t) : b \notin Range(th[u].list))
                       => blocks[b].set = NULL
            /\ th[t].incs = 0

\* C30: no block has BL_READING while it is in a set that has SET_WRITEBACK,
\* and no block of such a set is at the transport as a read
UnderWriteback(b) ==
    /\ blocks[b].set # NULL
    /\ "WRITEBACK" \in sets[blocks[b].set].bits
    /\ sets[blocks[b].set].submitted_blocks > 0

C30_NoReadUnderWriteback ==
    \A b \in Blocks :
        UnderWriteback(b) =>
            /\ "READING" \notin blocks[b].bits
            /\ \A i \in 1..Len(inflight) :
                   inflight[i].bnr = b => inflight[i].op = "WRITE"

\* C31: when ngnfs_block_dirty_begin backs off because the merge would exceed
\* SET_LIMIT, the sequence number it hands to sync_up_to_seq is the dirty_seq
\* of a set that has SET_DIRTY, a value assigned when the set was made dirty
BacksOff(t) == th[t].pc = "db_wbtest" /\ th'[t].pc = "sync_inc"

C31_BackOffSeqAssigned ==
    [][\A t \in TxnThreads :
          BacksOff(t) =>
              /\ "DIRTY" \in sets[th'[t].large].bits
              /\ sets[th'[t].large].dirty_seq # UNINIT
              /\ th'[t].seq = sets[th'[t].large].dirty_seq]_vars

\* C32: when a transaction merges two sets that both have SET_DIRTY and
\* neither of which the writeback work has taken, the blocks of both are in
\* one set afterwards and that set's dirty_seq is not less than either of
\* the two dirty_seq values the sets had
BothDirty(t) ==
    /\ th[t].large # NULL
    /\ \A s \in {th[t].small, th[t].large} :
           "DIRTY" \in sets[s].bits /\ "WRITEBACK" \notin sets[s].bits

Merges(t) ==
    /\ th[t].pc = "db_wbtest"
    /\ BothDirty(t)
    /\ th'[t].pc \in {"db_get", "db_mark"}

C32_MergedSeqIsNewest ==
    [][\A t \in TxnThreads :
          Merges(t) =>
              LET old == {th[t].small, th[t].large}
                  into == th'[t].large
              IN  /\ \A s \in old : \A b \in Range(sets[s].block_list) :
                         blocks'[b].set = into
                  /\ \A s \in old : sets'[into].dirty_seq >= sets[s].dirty_seq]_vars

\* C33: blocks go to the transport in the order in which they were added to
\* the submit intake, over any number of passes of the submit work and any
\* leftovers on its private list; so the blocks of a set that writeback took
\* earlier are all submitted before any block of a set it took later
Pending == submit_list \o Reverse(submit_llist)

Submits == Len(inflight') = Len(inflight) + 1

TakenBefore(x, y) ==
    \E i, j \in 1..Len(hist.promoted) :
        i < j /\ hist.promoted[i] = x /\ hist.promoted[j] = y

C33_SubmitInArrivalOrder ==
    [][/\ Submits =>
             /\ Pending # <<>>
             /\ inflight'[Len(inflight')].bnr = Head(Pending)
             /\ Pending' = Tail(Pending)
             /\ \A b \in Range(Pending') :
                    LET x == blocks[b].set
                        y == blocks[Head(Pending)].set
                    IN  (x # NULL /\ y # NULL /\ x # y) => ~TakenBefore(x, y)
       /\ ~Submits =>
             \E k \in 0..Len(Pending') :
                 Pending = SubSeq(Pending', 1, Len(Pending') - k)]_vars

\* a pass of the submit work that gathered the blocks of two sets has ended
\* with a block left on its private list and the others at the transport
C33_LeftoversKept ==
    /\ crashed = "no"
    /\ work.pc = "idle"
    /\ submit_list # <<>>
    /\ Len(inflight) > 1
    /\ Len(hist.promoted) > 1

\* C34: writeback_seq never decreases, and every step that changes it adds one
\* for a set that has SET_DIRTY and blocks to write and that the writeback
\* work has just moved to writeback
SeqAdvances == blinf'.writeback_seq # blinf.writeback_seq

C34_SeqPerDirtySet ==
    [][/\ blinf'.writeback_seq >= blinf.writeback_seq
       /\ SeqAdvances =>
             /\ blinf'.writeback_seq = blinf.writeback_seq + 1
             /\ work.set # NULL
             /\ "DIRTY" \in sets[work.set].bits
             /\ "WRITEBACK" \in sets[work.set].bits
             /\ sets[work.set].size > 0]_vars

\* C35: when ngnfs_block_sync has returned 0 and every commit of the run was
\* made before the call and no transaction is in progress, nr_dirty is 0 and
\* no set has SET_WRITEBACK
SyncReturned(t) == th[t].pc = "sync_ret" /\ th[t].ret = 0

NoneDirtiedSince ==
    /\ \A u \in TxnThreads : th[u].pc = "idle"
    /\ \A b \in Blocks : hist.ver[b] = hist.owed[b]

C35_SyncedMeansDissolved ==
    \A t \in SyncThreads :
        (SyncReturned(t) /\ NoneDirtiedSince) =>
            /\ blinf.nr_dirty = 0
            /\ \A s \in SetIds : "WRITEBACK" \notin sets[s].bits

\* C36: sync_waiters counts the callers inside sync_up_to_seq and never goes
\* below zero; its low bit is set only while a caller is counted; the caller
\* that leaves returns -EIO exactly when the bit was set as it left, and the
\* bit is cleared by the last caller that leaves and by no other
Registered == {t \in Threads : th[t].pc \in {"sync_wait", "sync_wait2", "sync_dec"}}

Leaves(t) == th[t].pc = "sync_dec" /\ th'[t].pc # "sync_dec"

LatchCounts ==
    /\ blinf.sync_waiters >= 0
    /\ blinf.sync_waiters \div SYNC_WAITERS_INC = Cardinality(Registered)
    /\ sync_waiters_has_error(blinf) => Registered # {}

LatchOnLeave ==
    \A t \in Threads :
        Leaves(t) =>
            /\ (th'[t].ret = -EIO) <=> sync_waiters_has_error(blinf)
            /\ th'[t].ret \in {0, -EIO}
            /\ sync_waiters_has_error(blinf') <=>
                   (sync_waiters_has_error(blinf) /\ Registered # {t})

C36_SyncLatch == [](crashed = "no" => LatchCounts) /\ [][LatchOnLeave]_vars

\* the caller of ngnfs_block_sync has left with -EIO and the latch is still
\* set for a transaction that is counted in sync_waiters
C36_LatchOutlivesLeaver ==
    /\ crashed = "no"
    /\ sync_waiters_has_error(blinf)
    /\ \E t \in SyncThreads : th[t].pc = "sync_ret" /\ th[t].ret = -EIO
    /\ Registered \cap TxnThreads # {}

\* C37: when the writeback work has set SET_WRITEBACK on a set and finds
\* SET_DIRTYING, it clears SET_WRITEBACK and changes nothing else: no block is
\* added to the submit intake, nr_writeback, writeback_seq and the set's
\* submitted_blocks keep their values and the set stays at the head of the
\* writeback list; the end of its wait changes nothing either
WbBacksOff == work.pc = "wb_test" /\ work'.pc = "wb_wait"

WbWaitEnds == work.pc = "wb_wait" /\ work'.pc # "wb_wait"

C37_BackOffOnlyClearsWriteback ==
    [][/\ WbBacksOff =>
             /\ "WRITEBACK" \notin sets'[work.set].bits
             /\ \A s \in SetIds :
                    sets'[s] = IF s = work.set
                               THEN [sets[s] EXCEPT !.bits = @ \ {"WRITEBACK"}]
                               ELSE sets[s]
             /\ writeback_list # <<>> /\ Head(writeback_list) = work.set
             /\ UNCHANGED <<blinf, blocks, submit_llist, submit_list, writeback_llist,
                            writeback_list, inflight>>
       /\ WbWaitEnds =>
             /\ work'.pc = "idle"
             /\ UNCHANGED <<blinf, blocks, sets, submit_llist, submit_list,
                            writeback_llist, writeback_list, inflight>>]_vars

\* the writeback work waits for SET_DIRTYING on a dirty set it left on its list
C37_BackedOff ==
    /\ crashed = "no"
    /\ work.pc = "wb_wait"
    /\ writeback_list # <<>> /\ Head(writeback_list) = work.set
    /\ "DIRTYING" \in sets[work.set].bits
    /\ "DIRTY" \in sets[work.set].bits
    /\ "WRITEBACK" \notin sets[work.set].bits

\* C38: ngnfs_block_dirty_end finds, through the first block of its list, the
\* set on which the matching dirty_begin took SET_DIRTYING, never a null set
\* pointer; it clears SET_DIRTYING on that set and on no other and drops the
\* reference of that set and of no other
ClearedDirtying == {s \in SetIds : "DIRTYING" \in sets[s].bits /\ "DIRTYING" \notin sets'[s].bits}

PutSets == {s \in SetIds : sets'[s].refcount < sets[s].refcount}

C38_EndClearsOwnSet ==
    [][/\ crashed' # "NULL set in dirty_end"
       /\ \A t \in TxnThreads :
             EndsDirty(t) =>
                 /\ th[t].held # NULL
                 /\ "DIRTYING" \in sets[th[t].held].bits
                 /\ ClearedDirtying = {th[t].held}
                 /\ PutSets = {th[t].held}]_vars

\* C39: ngnfs_block_get sets BL_READING, and so queues a read, only on a block
\* that is not BL_UPTODATE, and no read that completes without error brings
\* contents into a block that holds commits no completed write has carried
SetsReading(b) == "READING" \notin blocks[b].bits /\ "READING" \in blocks'[b].bits

ReadFills(b) ==
    /\ "READING" \in blocks[b].bits /\ "READING" \notin blocks'[b].bits
    /\ "ERROR" \notin blocks'[b].bits

C39_NoReadOfUptodate ==
    [][\A b \in Blocks :
          /\ SetsReading(b) => "UPTODATE" \notin blocks[b].bits
          /\ ReadFills(b) => hist.ver[b] <= hist.durable[b]]_vars

\* C40: a set is made dirty, and so added to the writeback intake, at most
\* once between its allocation and its release: the set that gets SET_DIRTY
\* has never had a dirty_seq and is neither on the writeback intake nor on the
\* writeback list, and no set is on them twice
MadeDirty(s) == "DIRTY" \notin sets[s].bits /\ "DIRTY" \in sets'[s].bits

OnWritebackLists == writeback_llist \o writeback_list

C40_DirtyOnce ==
    [][/\ \A s \in SetIds :
             MadeDirty(s) =>
                 /\ sets[s].dirty_seq = UNINIT
                 /\ s \notin Range(OnWritebackLists)
       /\ \A i, j \in 1..Len(OnWritebackLists) :
             OnWritebackLists[i] = OnWritebackLists[j] => i = j]_vars

====
